---- MODULE Spec2Model ----
(***************************************************************************)
(* Dephaze UDT: phase-space resolution engine.                             *)
(*                                                                         *)
(* Real numbers (Python floats) are represented in fixed point: the        *)
(* integer n stands for n / Scale.  Products and quotients are rounded to  *)
(* the nearest unit, square roots are floored.  Cryptographic digests      *)
(* (SHA-256 in the mapper and the edge phase) are tabulated, for the       *)
(* finite set of texts the model uses, with the values the digests have.   *)
(***************************************************************************)
EXTENDS Integers, Sequences, FiniteSets, TLC

\* ------------------------------------------------------------------
\* State
\* ------------------------------------------------------------------
\* Two engines built with the same configuration: udt is fed the inputs,
\* udt2 is fed the same inputs later (at another time of day).
VARIABLES
    udt,        \* the primary DephazeUDT engine
    udt2,       \* the second engine
    inputs,     \* the prompts passed to udt.forward(), in order
    outs,       \* the bundles udt.forward() returned, in order
    outs2,      \* the bundles udt2.forward() returned, in order
    wallclock,  \* the time of day, which differs between the two runs
    gf,         \* GodelField.bridges of a stand-alone relation field
    gfLog,      \* the accepted add_relation calls: key and clamped strength
    gfEvicted,  \* keys of bridges the capacity clamp has discarded
    lsigma,     \* the SigmaState handed to a stand-alone LambdaEngine
    largs,      \* the arguments of the last LambdaEngine.forward call
    lres,       \* its outcome
    tcall,      \* the last Topology.enforce call: its argument and result
    snap,       \* the sigma_snapshot a session holds while it explores
    primary,    \* the engine as it was when that snapshot was taken
    wikiCalls,  \* per forward() call of a session with an evidence provider:
                \* use_wiki, whether the provider raised, how often it was called
    icall,      \* the last _ingest_godel_field call on a stand-alone engine
    aload,      \* the last AtlasField.load call: the snapshot read and its outcome
    world,      \* the persisted GRM files and the last call that read them
    merger,     \* a GRMMerger: its nodes and the log of get_or_create calls
    sampled     \* the last GodelField.sample_attractors call and its outcome

vars == << udt, udt2, inputs, outs, outs2, wallclock, gf, gfLog, gfEvicted,
           lsigma, largs, lres, tcall, snap, primary, wikiCalls, icall,
           aload, world, merger, sampled >>
engineVars == << udt, udt2, inputs, outs, outs2, wallclock >>
fieldVars == << gf, gfLog, gfEvicted >>
lambdaVars == << lsigma, largs, lres >>
topoVars == << tcall >>
sessionVars == << snap, primary, wikiCalls >>
ingestVars == << icall >>
toolVars == << aload, world, merger, sampled >>
otherVars == << topoVars, sessionVars, ingestVars, toolVars >>

\* ------------------------------------------------------------------
\* Bounds of the model
\* ------------------------------------------------------------------
\* number of forward() calls explored on the primary engine
MaxCalls == 4
\* history_size the engines and the memories are built with
HistorySize == 2
\* max_bridges of the stand-alone relation field
MaxBridges == 2
\* number of accepted add_relation calls explored
MaxAdds == 4
\* number of times in sequence one input is fed to an engine
MaxRepeats == 50
\* number of forward() calls explored on an engine with an evidence provider
MaxAsks == 2
\* length of the cleaned relation lists handed to one ingest
MaxRelations == 11

\* ------------------------------------------------------------------
\* Fixed-point arithmetic
\* ------------------------------------------------------------------
Scale == 1000

Max(a, b) == IF a >= b THEN a ELSE b
Min(a, b) == IF a <= b THEN a ELSE b

\* a / b rounded to the nearest integer (b > 0)
RoundDiv(a, b) == (2 * a + b) \div (2 * b)

\* product of two fixed-point numbers
Mul(a, b) == RoundDiv(a * b, Scale)

RECURSIVE ISqrtBetween(_, _, _)
ISqrtBetween(n, lo, hi) ==
    IF lo >= hi THEN lo
    ELSE LET mid == (lo + hi + 1) \div 2
         IN  IF mid * mid <= n THEN ISqrtBetween(n, mid, hi)
             ELSE ISqrtBetween(n, lo, mid - 1)

\* math.sqrt on a sum of squared fixed-point numbers
ISqrt(n) == ISqrtBetween(n, 0, 4 * Scale)

RECURSIVE ExpSeries(_, _, _, _)
ExpSeries(x, term, k, acc) ==
    IF term = 0 \/ k > 30 THEN acc
    ELSE LET next == RoundDiv(term * x, k * Scale)
         IN  ExpSeries(x, next, k + 1, acc + next)

\* math.exp(x) for x >= 0
ExpPos(x) == ExpSeries(x, Scale, 1, Scale)

\* math.exp(x) for any x in the range the program uses
Exp(x) == IF x >= 0 THEN ExpPos(x) ELSE RoundDiv(Scale * Scale, ExpPos(-x))

\* math.tanh(y) = (e^{2y} - 1) / (e^{2y} + 1)
Tanh(y) ==
    LET e == ExpPos(2 * (IF y >= 0 THEN y ELSE -y))
        t == RoundDiv((e - Scale) * Scale, e + Scale)
    IN  IF y >= 0 THEN t ELSE -t

\* ------------------------------------------------------------------
\* core/phase.py : PhaseCoord
\* ------------------------------------------------------------------
PhaseCoord(t, p, r) == [theta |-> t, phi |-> p, rho |-> r]

Origin == PhaseCoord(0, 0, 0)

\* clamp() that leaves rho as it is
clamp_theta_phi_only(c) ==
    PhaseCoord(Max(-Scale, Min(Scale, c.theta)),
               Max(-Scale, Min(Scale, c.phi)),
               c.rho)

clamp(c) ==
    PhaseCoord(Max(-Scale, Min(Scale, c.theta)),
               Max(-Scale, Min(Scale, c.phi)),
               Max(0, Min(Scale, c.rho)))

distance_to(a, b) ==
    ISqrt((a.theta - b.theta) * (a.theta - b.theta)
          + (a.phi - b.phi) * (a.phi - b.phi)
          + (a.rho - b.rho) * (a.rho - b.rho))

\* ------------------------------------------------------------------
\* core/phase.py : Topology
\* ------------------------------------------------------------------
default_topology ==
    << [name |-> "origin_shrine",
        theta_range |-> << -50, 50 >>,
        phi_range |-> << -50, 50 >>,
        rho_range |-> << 0, 150 >>,
        locked |-> FALSE],
       [name |-> "rocksteeple_forbidden",
        theta_range |-> << 200, 300 >>,
        phi_range |-> << 500, 700 >>,
        rho_range |-> << 700, 1000 >>,
        locked |-> TRUE] >>

_inside(c, r) ==
    /\ r.theta_range[1] <= c.theta /\ c.theta <= r.theta_range[2]
    /\ r.phi_range[1] <= c.phi /\ c.phi <= r.phi_range[2]
    /\ r.rho_range[1] <= c.rho /\ c.rho <= r.rho_range[2]

\* the fixed displacement 0.02 of _push_1d
PushMargin == 20

\* _push_1d() moving the value onto the edge of the range
_push_1d_to_edge(v, rng) ==
    LET lo == rng[1]
        hi == rng[2]
    IN  IF v < lo \/ v > hi THEN v
        ELSE IF (v - lo) < (hi - v) THEN lo ELSE hi

_push_1d(v, rng) ==
    LET lo == rng[1]
        hi == rng[2]
    IN  IF v < lo \/ v > hi THEN v
        ELSE IF (v - lo) < (hi - v) THEN lo - PushMargin ELSE hi + PushMargin

RECURSIVE enforce_from(_, _, _)
enforce_from(regions, c, i) ==
    IF i > Len(regions) THEN c
    ELSE LET r == regions[i]
             c2 == IF r.locked /\ _inside(c, r)
                   THEN clamp(PhaseCoord(_push_1d(c.theta, r.theta_range),
                                         _push_1d(c.phi, r.phi_range),
                                         _push_1d(c.rho, r.rho_range)))
                   ELSE c
         IN  enforce_from(regions, c2, i + 1)

enforce(regions, coord) == enforce_from(regions, clamp(coord), 1)

\* a coordinate lies in some locked region of the canonical topology
InLocked(c) ==
    \E i \in 1..Len(default_topology) :
        default_topology[i].locked /\ _inside(c, default_topology[i])

InBounds(c) ==
    /\ -Scale <= c.theta /\ c.theta <= Scale
    /\ -Scale <= c.phi /\ c.phi <= Scale
    /\ 0 <= c.rho /\ c.rho <= Scale

\* ------------------------------------------------------------------
\* Text helpers (str.strip, str.lower, whitespace collapse), tabulated
\* over the texts of the model
\* ------------------------------------------------------------------
strip(s) ==
    CASE s = "  " -> ""
      [] s = " Rome " -> "Rome"
      [] s = "IS " -> "IS"
      [] OTHER -> s

lower(s) ==
    CASE s = "Paris" -> "paris"
      [] s = "Rome" -> "rome"
      [] s = "IS" -> "is"
      [] s = "the capital of France" -> "the capital of france"
      [] s = "Paris is the capital of France" -> "paris is the capital of france"
      [] s = "run Paris is the capital of France" -> "run paris is the capital of france"
      [] s = "run Paris" -> "run paris"
      [] s = "Rmd" -> "rmd"
      [] s = "Rmd is a city" -> "rmd is a city"
      [] s = "paris :: Paris. Paris is the capital of France" ->
            "paris :: paris. paris is the capital of france"
      [] OTHER -> s

\* ------------------------------------------------------------------
\* core/phase.py : PhaseMapper
\* ------------------------------------------------------------------
\* text.strip().lower(), then runs of whitespace collapsed (no text of the
\* model has an inner run of whitespace)
_normalize(text) == lower(strip(text))

\* (int(sha256(seed)[:16], 16) % 10**12) / 10**12 ; the axis tags of the
\* source are the Greek letters theta, phi, rho followed by a colon
_hash_to_unit(seed) ==
    CASE seed = "theta:paris" -> 779
      [] seed = "phi:paris" -> 991
      [] seed = "rho:paris" -> 915
      [] seed = "theta:nc" -> 336
      [] seed = "phi:nc" -> 551
      [] seed = "rho:nc" -> 934
      [] seed = "theta:fuu" -> 610
      [] seed = "phi:fuu" -> 843
      [] seed = "rho:fuu" -> 928
      [] seed = "theta:paris is the capital of france" -> 671
      [] seed = "phi:paris is the capital of france" -> 118
      [] seed = "rho:paris is the capital of france" -> 328
      [] seed = "theta:run paris is the capital of france" -> 516
      [] seed = "phi:run paris is the capital of france" -> 384
      [] seed = "rho:run paris is the capital of france" -> 577
      [] seed = "theta:the capital of france" -> 558
      [] seed = "phi:the capital of france" -> 60
      [] seed = "rho:the capital of france" -> 148
      [] seed = "theta:rome" -> 913
      [] seed = "phi:rome" -> 460
      [] seed = "rho:rome" -> 757
      [] seed = "theta:a city" -> 40
      [] seed = "phi:a city" -> 787
      [] seed = "rho:a city" -> 500
      [] seed = "theta:run paris" -> 800
      [] seed = "phi:run paris" -> 41
      [] seed = "rho:run paris" -> 372
      [] seed = "theta:" -> 867
      [] seed = "phi:" -> 399
      [] seed = "rho:" -> 863
      [] seed = "theta:s01" -> 45
      [] seed = "phi:s01" -> 857
      [] seed = "rho:s01" -> 499
      [] seed = "theta:s02" -> 885
      [] seed = "phi:s02" -> 144
      [] seed = "rho:s02" -> 334
      [] seed = "theta:s03" -> 813
      [] seed = "phi:s03" -> 298
      [] seed = "rho:s03" -> 329
      [] seed = "theta:s04" -> 269
      [] seed = "phi:s04" -> 794
      [] seed = "rho:s04" -> 746
      [] seed = "theta:s05" -> 840
      [] seed = "phi:s05" -> 559
      [] seed = "rho:s05" -> 694
      [] seed = "theta:s06" -> 330
      [] seed = "phi:s06" -> 272
      [] seed = "rho:s06" -> 215
      [] seed = "theta:s07" -> 31
      [] seed = "phi:s07" -> 696
      [] seed = "rho:s07" -> 591
      [] seed = "theta:s08" -> 963
      [] seed = "phi:s08" -> 549
      [] seed = "rho:s08" -> 371
      [] seed = "theta:s09" -> 66
      [] seed = "phi:s09" -> 495
      [] seed = "rho:s09" -> 199
      [] seed = "theta:s10" -> 536
      [] seed = "phi:s10" -> 222
      [] seed = "rho:s10" -> 683
      [] seed = "theta:s11" -> 781
      [] seed = "phi:s11" -> 940
      [] seed = "rho:s11" -> 736
      [] seed = "theta:s12" -> 530
      [] seed = "phi:s12" -> 902
      [] seed = "rho:s12" -> 267
      [] seed = "theta:qrc" -> 998
      [] seed = "phi:qrc" -> 958
      [] seed = "rho:qrc" -> 7
      [] seed = "theta:rmd is a city" -> 17
      [] seed = "phi:rmd is a city" -> 1
      [] seed = "rho:rmd is a city" -> 972
      [] seed = "theta:rmd" -> 434
      [] seed = "phi:rmd" -> 741
      [] seed = "rho:rmd" -> 858
      [] seed = "theta:paris :: paris. paris is the capital of france" -> 660
      [] seed = "phi:paris :: paris. paris is the capital of france" -> 87
      [] seed = "rho:paris :: paris. paris is the capital of france" -> 442
      [] seed = "theta:x|y" -> 203
      [] seed = "phi:x|y" -> 800
      [] seed = "rho:x|y" -> 46
      [] seed = "theta:x" -> 602
      [] seed = "phi:x" -> 879
      [] seed = "rho:x" -> 781
      [] seed = "theta:z" -> 41
      [] seed = "phi:z" -> 712
      [] seed = "rho:z" -> 788

\* a mapper whose hash is salted by the run (the time of day)
text_to_phase_salted(text) ==
    LET t == _normalize(text)
    IN  IF t = "" THEN PhaseCoord(0, 0, 0)
        ELSE LET a == (_hash_to_unit("theta:" \o t) + 137 * wallclock) % Scale
                 b == _hash_to_unit("phi:" \o t)
                 c == _hash_to_unit("rho:" \o t)
             IN  enforce(default_topology,
                         PhaseCoord(a * 2 - Scale, b * 2 - Scale, c))

\* a mapper without the early return for the empty text
text_to_phase_unguarded(text) ==
    enforce(default_topology,
            PhaseCoord(_hash_to_unit("theta:" \o _normalize(text)) * 2 - Scale,
                       _hash_to_unit("phi:" \o _normalize(text)) * 2 - Scale,
                       _hash_to_unit("rho:" \o _normalize(text))))

text_to_phase(text) ==
    LET t == _normalize(text)
    IN  IF t = "" THEN PhaseCoord(0, 0, 0)
        ELSE LET a == _hash_to_unit("theta:" \o t)
                 b == _hash_to_unit("phi:" \o t)
                 c == _hash_to_unit("rho:" \o t)
             IN  enforce(default_topology,
                         PhaseCoord(a * 2 - Scale, b * 2 - Scale, c))

\* ------------------------------------------------------------------
\* core/sigma.py : SigmaHistory, SigmaState
\* ------------------------------------------------------------------
\* Python's None, as returned by centroid() on an empty history
None == [none |-> TRUE]

RECURSIVE SumSeq(_)
SumSeq(s) == IF s = << >> THEN 0 ELSE Head(s) + SumSeq(Tail(s))

\* push() that drops the newest entry when the history is full
push_keep_oldest(recent, maxlen, phase) ==
    IF Len(recent) >= maxlen THEN recent ELSE Append(recent, phase)

push(recent, maxlen, phase) ==
    Append(IF Len(recent) >= maxlen THEN Tail(recent) ELSE recent, phase)

centroid(recent) ==
    IF recent = << >> THEN None
    ELSE LET n == Len(recent)
             th == RoundDiv(SumSeq([i \in 1..n |-> recent[i].theta]), n)
             ph == RoundDiv(SumSeq([i \in 1..n |-> recent[i].phi]), n)
             rh == RoundDiv(SumSeq([i \in 1..n |-> recent[i].rho]), n)
         IN  clamp(PhaseCoord(th, ph, rh))

spread(recent) ==
    LET c == centroid(recent)
    IN  IF c = None THEN 0
        ELSE RoundDiv(SumSeq([i \in 1..Len(recent) |-> distance_to(recent[i], c)]),
                      Len(recent))

\* SigmaState(history_size): xi defaults to 1.0, the history is empty
SigmaState(history_size) ==
    [history_size |-> history_size, recent |-> << >>, xi |-> Scale]

\* the oldest entry of the history instead of the newest
current_phase_oldest(sigma) ==
    IF sigma.recent = << >> THEN PhaseCoord(0, 0, 0) ELSE sigma.recent[1]

current_phase(sigma) ==
    IF sigma.recent = << >> THEN PhaseCoord(0, 0, 0)
    ELSE sigma.recent[Len(sigma.recent)]

\* xi = 1.0 / (1.0 + spread), spread taken from the history it is given
_update_xi(recent) == RoundDiv(Scale * Scale, Scale + spread(recent))

\* update() that computes xi before the push
update_xi_before_push(sigma, new_phase) ==
    LET recent2 == push(sigma.recent, sigma.history_size, new_phase)
    IN  [sigma EXCEPT !.recent = recent2, !.xi = _update_xi(sigma.recent)]

\* update() that measures the new phase against the previous centroid
\* (the origin when there was none)
update_xi_prev_centroid(sigma, new_phase) ==
    LET recent2 == push(sigma.recent, sigma.history_size, new_phase)
        prev == IF sigma.recent = << >> THEN Origin ELSE centroid(sigma.recent)
    IN  [sigma EXCEPT !.recent = recent2,
                      !.xi = RoundDiv(Scale * Scale,
                                      Scale + distance_to(new_phase, prev))]

update(sigma, new_phase) ==
    LET recent2 == push(sigma.recent, sigma.history_size, new_phase)
    IN  [sigma EXCEPT !.recent = recent2, !.xi = _update_xi(recent2)]

\* audit() rounds xi and spread to 6 decimals: unit 1 / AuditScale
AuditScale == 1000000

audit(sigma) ==
    [history_len |-> Len(sigma.recent),
     xi |-> RoundDiv(sigma.xi * AuditScale, Scale),
     spread |-> RoundDiv(spread(sigma.recent) * AuditScale, Scale),
     current_phase |-> current_phase(sigma)]

\* ------------------------------------------------------------------
\* core/lambda_engine.py : LambdaEngine
\* ------------------------------------------------------------------
pcm_gain == 450
noise_damp == 850
atlas_gain == 350
godel_gain == 600
edge_gain == 350

\* confidence and the xi of a LambdaResult are rounded to 4 decimals:
\* unit 1 / ConfScale
ConfScale == 10000

_confidence(xi, spread_) ==
    LET base == Scale \div 2 + Mul(Scale \div 2, Tanh(Mul(2500, xi - Scale \div 2)))
        damp == Exp(-Mul(noise_damp, Max(0, spread_)))
    IN  RoundDiv(base * damp, (Scale * Scale) \div ConfScale)

\* A duck-typed field object is a record of the methods the engine probes.
\* Each method is [has, raises, ok, bad, v]: whether the object has it,
\* whether calling it raises, whether the value has the expected shape
\* (a dict with theta/phi/rho, a node with theta/phi/rho), the index of the
\* first of its three components float() rejects (0: none), and the
\* three components.
NoMethod == [has |-> FALSE, raises |-> FALSE, ok |-> FALSE, bad |-> 0,
             v |-> << 0, 0, 0 >>]

\* None, or an object with none of the probed methods (GodelField and
\* AtlasField define neither resultant_vector nor any atlas call shape)
NoField == [resultant_vector |-> NoMethod, pull_vector |-> NoMethod,
            as_lambda_payload |-> NoMethod, nearest |-> NoMethod]

\* what a method of a field object may do when called
Raises == [has |-> TRUE, raises |-> TRUE, ok |-> FALSE, bad |-> 0,
           v |-> << 0, 0, 0 >>]
Returns(vec) == [has |-> TRUE, raises |-> FALSE, ok |-> TRUE, bad |-> 0, v |-> vec]
\* the value lacks theta/phi/rho (e.g. the empty dict, or None)
ReturnsOther == [has |-> TRUE, raises |-> FALSE, ok |-> FALSE, bad |-> 0,
                 v |-> << 0, 0, 0 >>]
\* the k-th component of the value is not a number
ReturnsBad(vec, k) == [has |-> TRUE, raises |-> FALSE, ok |-> TRUE, bad |-> k,
                       v |-> vec]

\* core/atlas_field.py : AtlasStar, and AtlasField(stars), which offers
\* load, potential, nearest_distance and audit: none of the methods the
\* Resolution Operator probes
AtlasStar(x, y, z, weight, quality) ==
    [x |-> x, y |-> y, z |-> z, weight |-> weight, quality |-> quality]

AtlasField(stars) ==
    [resultant_vector |-> NoMethod, pull_vector |-> NoMethod,
     as_lambda_payload |-> NoMethod, nearest |-> NoMethod, stars |-> stars]

\* atlas.py : AtlasNode(key, theta, phi, rho)
AtlasNode(key, theta, phi, rho) ==
    [key |-> key, theta |-> theta, phi |-> phi, rho |-> rho]

\* atlas.py : GlobalAtlas(nodes), a read-only list of AtlasNode
GlobalAtlas(nodes) == [nodes |-> nodes]

\* GlobalAtlas.nearest(phase, max_dist=1.0): the first node at the least
\* distance, if that is at most max_dist; else None
RECURSIVE nearest_from(_, _, _, _)
nearest_from(nodes, phase, i, best) ==
    IF i > Len(nodes) THEN best
    ELSE LET d == distance_to(nodes[i], phase)
         IN  nearest_from(nodes, phase, i + 1,
                          IF d <= Scale /\ (best = None \/ d < distance_to(best, phase))
                          THEN nodes[i] ELSE best)

nearest(nodes, phase) == nearest_from(nodes, phase, 1, None)

\* what the methods of an atlas object do when called with start: a
\* GlobalAtlas offers as_lambda_payload (the empty dict when no node is
\* near) and nearest
atlas_at(atlas, start) ==
    IF "nodes" \notin DOMAIN atlas THEN atlas
    ELSE LET n == nearest(atlas.nodes, start)
             m == IF n = None THEN ReturnsOther
                  ELSE Returns(<< n.theta, n.phi, n.rho >>)
         IN  [NoField EXCEPT !.as_lambda_payload = m, !.nearest = m]

\* getattr(sigma, "spread", 0.0): SigmaState has no attribute spread
getattr_spread(sigma) == IF "spread" \in DOMAIN sigma THEN sigma.spread ELSE 0

\* the body of one try block of forward():
\*   v = field.resultant_vector(start); theta += g*float(v[0]);
\*   phi += g*float(v[1]); rho += g*float(v[2]); mode_tags.append(tag)
\* An exception leaves the statements before it in effect.
ApplyResultant(acc, m, gain, tag) ==
    IF ~m.has \/ m.raises THEN acc
    ELSE [theta |-> IF m.bad = 1 THEN acc.theta
                    ELSE acc.theta + Mul(gain, m.v[1]),
          phi |-> IF m.bad \in {1, 2} THEN acc.phi
                  ELSE acc.phi + Mul(gain, m.v[2]),
          rho |-> IF m.bad \in {1, 2, 3} THEN acc.rho
                  ELSE acc.rho + Mul(gain, m.v[3]),
          tags |-> IF m.bad = 0 THEN Append(acc.tags, tag) ELSE acc.tags]

\* result: [raised, some, v] -- the call raised, or returned a vector
\* (some) or None
_atlas_pull_vector(atlas, start) ==
    LET pv == atlas_at(atlas, start).pull_vector
        pl == atlas_at(atlas, start).as_lambda_payload
        nr == atlas_at(atlas, start).nearest
        Ret(vec) == [raised |-> FALSE, some |-> TRUE, v |-> vec]
        Toward(m) == << m.v[1] - start.theta, m.v[2] - start.phi,
                        m.v[3] - start.rho >>
    IN  IF pv.has
        THEN IF pv.raises \/ pv.bad # 0
             THEN [raised |-> TRUE, some |-> FALSE, v |-> << 0, 0, 0 >>]
             ELSE Ret(pv.v)
        ELSE IF pl.has /\ ~pl.raises /\ pl.ok /\ pl.bad = 0
        THEN Ret(Toward(pl))
        ELSE IF nr.has /\ ~nr.raises /\ nr.ok /\ nr.bad = 0
        THEN Ret(Toward(nr))
        ELSE [raised |-> FALSE, some |-> FALSE, v |-> << 0, 0, 0 >>]

RECURSIVE JoinTags(_)
JoinTags(tags) ==
    IF Len(tags) = 1 THEN tags[1]
    ELSE tags[1] \o " + " \o JoinTags(Tail(tags))

\* the PCM pull toward the Imago, with the initial mode tags
\* a pull with the sign of the displacement reversed
PcmPull_away(start, imago_phase) ==
    [theta |-> start.theta - Mul(pcm_gain, imago_phase.theta - start.theta),
     phi |-> start.phi - Mul(pcm_gain, imago_phase.phi - start.phi),
     rho |-> start.rho - Mul(pcm_gain, imago_phase.rho - start.rho),
     tags |-> << "POOR", "PCM" >>]

PcmPull(start, imago_phase) ==
    [theta |-> start.theta + Mul(pcm_gain, imago_phase.theta - start.theta),
     phi |-> start.phi + Mul(pcm_gain, imago_phase.phi - start.phi),
     rho |-> start.rho + Mul(pcm_gain, imago_phase.rho - start.rho),
     tags |-> << "POOR", "PCM" >>]

\* if v is not None: add atlas_gain * v and tag "ATLAS"
ApplyAtlas(acc, av) ==
    IF av.some
    THEN [theta |-> acc.theta + Mul(atlas_gain, av.v[1]),
          phi |-> acc.phi + Mul(atlas_gain, av.v[2]),
          rho |-> acc.rho + Mul(atlas_gain, av.v[3]),
          tags |-> Append(acc.tags, "ATLAS")]
    ELSE acc

\* chosen = PhaseCoord(theta, phi, rho).clamp(); return LambdaResult(...)
LambdaResult(acc, xi, spread_) ==
    [raised |-> FALSE,
     mode |-> JoinTags(acc.tags),
     confidence |-> _confidence(xi, spread_),
     xi |-> RoundDiv(xi * ConfScale, Scale),
     chosen |-> clamp(PhaseCoord(acc.theta, acc.phi, acc.rho))]

\* LambdaEngine.forward: [raised |-> TRUE] when an exception leaves it,
\* otherwise the LambdaResult
LambdaEngine_forward(sigma, imago_phase, atlas, godel_field, edge_field) ==
    LET start == clamp(current_phase(sigma))
        av == _atlas_pull_vector(atlas, start)
    IN  IF av.raised
        THEN [raised |-> TRUE, mode |-> "", confidence |-> 0, xi |-> 0,
              chosen |-> Origin]
        ELSE LambdaResult(
                 ApplyAtlas(
                     ApplyResultant(
                         ApplyResultant(PcmPull(start, imago_phase),
                                        edge_field.resultant_vector,
                                        edge_gain, "EDGE"),
                         godel_field.resultant_vector, godel_gain, "GODEL_FIELD"),
                     av),
                 sigma.xi, getattr_spread(sigma))

\* ------------------------------------------------------------------
\* core/edge_phase.py : edge_phase
\* ------------------------------------------------------------------
\* the first three big-endian 16-bit words of sha256(key)
edge_digest_u16(key) ==
    CASE key = "EDGE_PHASE_V1|Paris|is|the capital of France" -> << 59754, 11662, 46190 >>
      [] key = "EDGE_PHASE_V1|Rome|is|the capital of France" -> << 40362, 64495, 54611 >>
      [] key = "EDGE_PHASE_V1|Paris|is|a city" -> << 54308, 37050, 53232 >>
      [] key = "EDGE_PHASE_V1|Rome|is|a city" -> << 39735, 32263, 58661 >>
      [] key = "EDGE_PHASE_V1|Rmd|is|a city" -> << 61275, 63520, 12688 >>
      [] key = "EDGE_PHASE_V1|s01|is|a city" -> << 42491, 20736, 15559 >>
      [] key = "EDGE_PHASE_V1|s02|is|a city" -> << 31492, 31873, 23176 >>
      [] key = "EDGE_PHASE_V1|s03|is|a city" -> << 48843, 2510, 40655 >>
      [] key = "EDGE_PHASE_V1|s04|is|a city" -> << 88, 27430, 54867 >>
      [] key = "EDGE_PHASE_V1|s05|is|a city" -> << 52797, 43288, 29927 >>
      [] key = "EDGE_PHASE_V1|s06|is|a city" -> << 61639, 61292, 61177 >>
      [] key = "EDGE_PHASE_V1|s07|is|a city" -> << 65249, 506, 15905 >>
      [] key = "EDGE_PHASE_V1|s08|is|a city" -> << 1356, 13765, 1965 >>
      [] key = "EDGE_PHASE_V1|s09|is|a city" -> << 50336, 22761, 32594 >>
      [] key = "EDGE_PHASE_V1|s10|is|a city" -> << 62908, 50839, 16531 >>
      [] key = "EDGE_PHASE_V1|s11|is|a city" -> << 10411, 31558, 39856 >>
      [] key = "EDGE_PHASE_V1|s12|is|a city" -> << 56613, 18991, 33853 >>
      [] key = "EDGE_PHASE_V1|run Paris|is|the capital of France" -> << 13693, 40317, 38269 >>
      [] key = "EDGE_PHASE_V1|x|y|is|z" -> << 62430, 43687, 12416 >>
      [] key = "EDGE_PHASE_V1|x|is|z" -> << 54983, 2631, 17270 >>

edge_phase(subject, relation, object_) ==
    LET key == "EDGE_PHASE_V1|" \o strip(subject) \o "|" \o lower(strip(relation))
               \o "|" \o strip(object_)
        h == edge_digest_u16(key)
    IN  clamp(PhaseCoord(RoundDiv(h[1] * Scale * 2, 65535) - Scale,
                         RoundDiv(h[2] * Scale * 2, 65535) - Scale,
                         RoundDiv(h[3] * Scale, 65535)))

\* ------------------------------------------------------------------
\* core/godel_field.py : GodelField
\* ------------------------------------------------------------------
\* sha1 of "origin|subject|relation|object"; the digest is represented by
\* the string it is taken of (sha1 is collision-free on the model's keys)
_stable_key(subject, relation, object_, origin) ==
    origin \o "|" \o subject \o "|" \o lower(relation) \o "|" \o object_

BridgeKey(b) == _stable_key(b.subject, b.relation, b.object_, b.origin)

\* index of the first bridge with the key, 0 when there is none
RECURSIVE FindKey(_, _, _)
FindKey(bridges, key, i) ==
    IF i > Len(bridges) THEN 0
    ELSE IF BridgeKey(bridges[i]) = key THEN i
    ELSE FindKey(bridges, key, i + 1)

\* list.sort(key=strength, reverse=True): stable, descending (acc holds the
\* i - 1 bridges sorted so far; the test on its length, never true, has it
\* evaluated at every step)
RECURSIVE SortByStrengthDesc(_, _, _)
SortByStrengthDesc(bridges, i, acc) ==
    IF i > Len(bridges) \/ Len(acc) >= i THEN acc
    ELSE LET b == bridges[i]
             pos == Cardinality({j \in 1..Len(acc) : acc[j].strength >= b.strength})
         IN  SortByStrengthDesc(bridges, i + 1,
                 SubSeq(acc, 1, pos) \o << b >> \o SubSeq(acc, pos + 1, Len(acc)))

\* RelationBridge(subject=s, ..., strength=float(max(0.0, strength)), ...)
\* with the phase projections add_relation() computes for it
RelationBridge(s, r, o, strength, origin) ==
    [subject |-> s, relation |-> r, object_ |-> o,
     s_phase |-> text_to_phase(s),
     o_phase |-> text_to_phase(o),
     e_phase |-> clamp(edge_phase(s, r, o)),
     strength |-> Max(0, strength),
     origin |-> origin]

\* the insert-or-update step where a duplicate always replaces the stored
\* bridge
insert_or_update_last_wins(bridges, idx, rb) ==
    IF idx = 0 THEN Append(bridges, rb)
    ELSE [bridges EXCEPT ![idx] = rb]

\* if idx is None: append, else replace only when strictly stronger
insert_or_update(bridges, idx, rb) ==
    IF idx = 0 THEN Append(bridges, rb)
    ELSE IF rb.strength > bridges[idx].strength
    THEN [bridges EXCEPT ![idx] = rb]
    ELSE bridges

\* the capacity clamp truncating without sorting
capacity_clamp_unsorted(bridges, max_bridges) ==
    IF Len(bridges) > max_bridges
    THEN SubSeq(bridges, 1, max_bridges)
    ELSE bridges

\* if len(bridges) > max_bridges: sort by strength descending, truncate
capacity_clamp(bridges, max_bridges) ==
    IF Len(bridges) > max_bridges
    THEN SubSeq(SortByStrengthDesc(bridges, 1, << >>), 1, max_bridges)
    ELSE bridges

add_relation(bridges, max_bridges, subject, relation, object_, strength, origin) ==
    LET s == strip(subject)
        r == lower(strip(relation))
        o == strip(object_)
    IN  IF s = "" \/ r = "" \/ o = "" THEN bridges
        ELSE capacity_clamp(
                 insert_or_update(bridges,
                                  FindKey(bridges, _stable_key(s, r, o, origin), 1),
                                  RelationBridge(s, r, o, strength, origin)),
                 max_bridges)

\* ------------------------------------------------------------------
\* core/prompt_classifier.py : classify_prompt
\* ------------------------------------------------------------------
\* low.startswith(_COMMAND_PREFIXES) or _COMMAND_PATTERN.search(low)
IsCommandShaped(low) == low \in {"run paris is the capital of france", "run paris"}

\* " is " in low or " are " in low
HasCopula(low) ==
    low \in {"paris is the capital of france", "run paris is the capital of france",
             "rmd is a city", "paris :: paris. paris is the capital of france"}

classify_prompt(prompt) ==
    IF prompt = "" THEN "NOISE"
    ELSE LET p == strip(prompt)
             low == lower(p)
         IN  IF p = "" THEN "NOISE"
             ELSE IF IsCommandShaped(low) THEN "COMMAND_SHAPE"
             ELSE IF HasCopula(low) THEN "STATEMENT"
             ELSE "ENTITY"

\* ------------------------------------------------------------------
\* core/godel.py : GodelEngine.extract ; core/godel_normalizer.py
\* ------------------------------------------------------------------
Relation(s, r, o) == [subject |-> s, relation |-> r, object |-> o]

\* the copula patterns and the mention pattern applied to the text
extract(text) ==
    CASE text = "Paris is the capital of France" ->
            [relations |-> << Relation("Paris", "is", "the capital of France") >>,
             mentions |-> << "Paris", "France" >>]
      [] text = "run Paris is the capital of France" ->
            [relations |-> << Relation("run Paris", "is", "the capital of France") >>,
             mentions |-> << "Paris", "France" >>]
      [] text = "paris :: Paris. Paris is the capital of France" ->
            [relations |-> << Relation("Paris", "is", "the capital of France") >>,
             mentions |-> << "Paris", "France" >>]
      [] text = "Rmd is a city" ->
            [relations |-> << Relation("Rmd", "is", "a city") >>,
             mentions |-> << "Rmd" >>]
      [] text = "Rome is a city" ->
            [relations |-> << Relation("Rome", "is", "a city") >>,
             mentions |-> << "Rome" >>]
      [] OTHER -> [relations |-> << >>, mentions |-> << >>]

\* no subject of the model carries a "(born ..)", "(died ..)" or
\* "(formed ..)" annotation: every relation is passed on with its parts
\* stripped
normalize_relations(relations) ==
    [i \in 1..Len(relations) |->
        Relation(strip(relations[i].subject), strip(relations[i].relation),
                 strip(relations[i].object))]

\* ------------------------------------------------------------------
\* core/dephaze.py : DephazeUDT
\* ------------------------------------------------------------------
godel_user_weight == 600
godel_wiki_weight == 850
godel_global_weight == 500
\* gate thresholds 0.62 and 0.80, in the unit of the audit
godel_gate_min_xi == 620000
godel_gate_max_spread == 800000
\* GodelField() default capacity
DefaultMaxBridges == 4096

_bad_subjects ==
    {"he", "she", "it", "they", "this", "that", "there", "these", "those",
     "i", "you", "we", "me", "him", "her", "them", "a", "an", "the"}

\* no text of the model is wrapped in parentheses
_norm_node(s) == strip(s)

\* subj_l.startswith("born ")
StartsWithBorn(s) == s \in {"born 1912"}

_reject_relation(subj, rel, obj) ==
    LET subj_l == strip(lower(subj))
        obj_l == strip(lower(obj))
        rel_l == strip(lower(rel))
    IN  \/ subj = "" \/ obj = "" \/ rel_l = ""
        \/ subj_l \in _bad_subjects
        \/ Len(subj) < 2 \/ Len(obj) < 2
        \/ StartsWithBorn(subj_l)
        \/ obj_l \in {"one", "a", "an", "the"}

RECURSIVE _clean_relations(_)
_clean_relations(rels) ==
    IF rels = << >> THEN << >>
    ELSE LET r == Head(rels)
             subj == _norm_node(r.subject)
             obj == _norm_node(r.object)
             rel == strip(r.relation)
         IN  IF _reject_relation(subj, rel, obj)
             THEN _clean_relations(Tail(rels))
             ELSE << Relation(subj, rel, obj) >> \o _clean_relations(Tail(rels))

\* a gate that tests the spread only
_gate_spread_only(sigma_audit) ==
    sigma_audit.spread <= godel_gate_max_spread

_gate_ok(sigma_audit) ==
    sigma_audit.xi >= godel_gate_min_xi /\ sigma_audit.spread <= godel_gate_max_spread

_rel_strength(base_weight, sigma_audit) ==
    LET xi == RoundDiv(sigma_audit.xi * Scale, AuditScale)
        spread_ == RoundDiv(sigma_audit.spread * Scale, AuditScale)
        damp == Exp(-Mul(850, Max(0, spread_)))
    IN  Max(0, Mul(Mul(base_weight, xi), damp))

\* a push() that ignores its limit
RECURSIVE ingest_push_unlimited(_, _, _, _, _, _)
ingest_push_unlimited(bridges, relations, strength, origin, limit, i) ==
    IF i > Len(relations) \/ Len(bridges) > DefaultMaxBridges THEN bridges
    ELSE ingest_push_unlimited(
             add_relation(bridges, DefaultMaxBridges, relations[i].subject,
                          lower(strip(relations[i].relation)),
                          relations[i].object, strength, origin),
             relations, strength, origin, limit, i + 1)

\* the local push() of _ingest_godel_field.  (The field never exceeds its
\* capacity: the test on Len(bridges) is never true, it makes TLC evaluate
\* each add_relation before the next one.)
RECURSIVE ingest_push(_, _, _, _, _, _)
ingest_push(bridges, relations, strength, origin, limit, i) ==
    IF i > Min(limit, Len(relations)) \/ Len(bridges) > DefaultMaxBridges
    THEN bridges
    ELSE ingest_push(
             add_relation(bridges, DefaultMaxBridges, relations[i].subject,
                          lower(strip(relations[i].relation)),
                          relations[i].object, strength, origin),
             relations, strength, origin, limit, i + 1)

_ingest_godel_field(bridges, sigma_audit, user_rel, wiki_rel, global_rel) ==
    IF ~_gate_ok(sigma_audit) THEN bridges
    ELSE LET s_user == _rel_strength(godel_user_weight, sigma_audit)
             s_wiki == _rel_strength(godel_wiki_weight, sigma_audit)
             s_glob == _rel_strength(godel_global_weight, sigma_audit)
             b1 == ingest_push(bridges, user_rel, s_user, "user", 8, 1)
             b2 == ingest_push(b1, wiki_rel, s_wiki, "wiki", 10, 1)
         \* "if global_rel:" -- pushing an empty list adds nothing
         IN  ingest_push(b2, global_rel, s_glob, "global", 6, 1)

\* PromptStarMap.get_or_create: the cache maps a key to its star
get_or_create(stars, key, phase) ==
    LET k == lower(strip(key))
    IN  IF k \in DOMAIN stars
        THEN [stars EXCEPT ![k].hits = @ + 1]
        ELSE stars @@ (k :> [phase |-> phase, hits |-> 1])

\* list(dict.fromkeys(xs)): first occurrences, in order
RECURSIVE Dedup(_, _)
Dedup(xs, acc) ==
    IF xs = << >> THEN acc
    ELSE Dedup(Tail(xs),
               IF \E i \in 1..Len(acc) : acc[i] = Head(xs) THEN acc
               ELSE Append(acc, Head(xs)))

\* Python's None for the title and the extract of the evidence
NoneText == "<None>"

\* a relation field that offers resultant_vector: the pull is the edge
\* coordinate of its first bridge
GodelFieldObject_pulling(bridges) ==
    IF bridges = << >> THEN NoField
    ELSE [NoField EXCEPT !.resultant_vector =
              Returns(<< bridges[1].e_phase.theta, bridges[1].e_phase.phi,
                         bridges[1].e_phase.rho >>)]

\* the GodelField as the Lambda engine probes it: the class defines
\* add_relation, potential, sample_attractors and audit, and none of the
\* methods the engine looks for
GodelFieldObject(bridges) == NoField

\* a duck-typed evidence provider: what one search_and_fetch(p) call does
NoEvidence == [raises |-> FALSE, title |-> NoneText, extract |-> NoneText]

\* DephazeUDT(history_size=.., atlas=.., wiki=..); wiki tells whether a
\* provider was given
DephazeUDT_with(history_size, atlas, wiki) ==
    [sigma |-> SigmaState(history_size),
     godel_field |-> << >>,
     stars |-> << >>,
     atlas |-> atlas,
     edge_field |-> NoField,
     wiki |-> wiki]

\* DephazeUDT(history_size=...), built without atlas and without wiki
DephazeUDT(history_size) == DephazeUDT_with(history_size, NoField, FALSE)

\* the optional wiki fetch of forward(): whether the provider is called
\* (search_and_fetch has one call site, outside any loop) and the title
\* and extract forward() goes on with
\* a fetch that does not look at the kind of the input
wiki_fetch_any_kind(e, p, use_wiki, fetch) ==
    LET called == use_wiki /\ e.wiki /\ p # ""
        got == called /\ ~fetch.raises
    IN  [called |-> called,
         calls |-> IF called THEN 1 ELSE 0,
         title |-> IF got THEN fetch.title ELSE NoneText,
         extract |-> IF got THEN fetch.extract ELSE NoneText]

wiki_fetch(e, p, use_wiki, fetch) ==
    LET kind == classify_prompt(p)
        use == use_wiki /\ kind \notin {"NOISE", "COMMAND_SHAPE"}
        called == use /\ e.wiki /\ p # ""
        got == called /\ ~fetch.raises
    IN  [called |-> called,
         calls |-> IF called THEN 1 ELSE 0,
         title |-> IF got THEN fetch.title ELSE NoneText,
         extract |-> IF got THEN fetch.extract ELSE NoneText]

\* forward() from the extraction on: relations cleaned and merged, the
\* gated ingest, the bundle
forward_ingest(e, p, imago, lam, sigma2, stars2, w) ==
    LET kind == classify_prompt(p)
        ingest_godel == kind \notin {"NOISE", "COMMAND_SHAPE"}
        sigma_a == audit(sigma2)
        user_out == extract(p)
        wiki_out == extract(IF w.extract = NoneText THEN "" ELSE w.extract)
        glob_out == extract("")
        clean_user_rel == _clean_relations(normalize_relations(user_out.relations))
        clean_wiki_rel == _clean_relations(normalize_relations(wiki_out.relations))
        clean_glob_rel == _clean_relations(normalize_relations(glob_out.relations))
        merged == [relations |-> clean_user_rel \o clean_wiki_rel \o clean_glob_rel,
                   mentions |-> Dedup(user_out.mentions \o wiki_out.mentions
                                      \o glob_out.mentions, << >>)]
        field2 == IF ingest_godel
                  THEN _ingest_godel_field(e.godel_field, sigma_a, clean_user_rel,
                                           clean_wiki_rel, clean_glob_rel)
                  ELSE e.godel_field
    IN  [udt |-> [e EXCEPT !.sigma = sigma2, !.godel_field = field2,
                             !.stars = stars2],
         bundle |-> [prompt |-> p, imago_phase |-> imago, lambda_result |-> lam,
                     sigma_audit |-> sigma_a, godel |-> merged,
                     wiki_title |-> w.title, wiki_extract |-> w.extract],
         called |-> w.called,
         calls |-> w.calls]

\* forward() from the Lambda decision on: self.sigma.update(lam.chosen)
forward_update(e, p, imago, lam, w) ==
    forward_ingest(e, p, imago, lam, update(e.sigma, lam.chosen),
                   get_or_create(e.stars, IF p = "" THEN "<empty>" ELSE p, imago),
                   w)

\* forward() from the phase mapping on: the Lambda decision
forward_resolve(e, p, imago, w) ==
    forward_update(e, p, imago,
                   LambdaEngine_forward(e.sigma, imago, e.atlas,
                                        GodelFieldObject(e.godel_field),
                                        e.edge_field),
                   w)

\* DephazeUDT.forward(prompt, use_wiki=..): the engine after the call, the
\* bundle returned and whether the provider was called; fetch is what the
\* provider does if it is called
DephazeUDT_forward(e, prompt, use_wiki, fetch) ==
    forward_resolve(e, strip(prompt), text_to_phase(strip(prompt)),
                    wiki_fetch(e, strip(prompt), use_wiki, fetch))

\* ------------------------------------------------------------------
\* The engines: forward() on the primary engine, the same inputs replayed
\* on the second engine
\* ------------------------------------------------------------------
Prompts ==
    {"", "paris", "nc", "fuu", "Paris is the capital of France",
     "run Paris is the capital of France"}

FieldIdle ==
    /\ gf = << >> /\ gfLog = << >> /\ gfEvicted = {}
LambdaIdle ==
    /\ lsigma = SigmaState(HistorySize) /\ largs = << >> /\ lres = << >>
EngineIdle ==
    /\ udt = DephazeUDT(HistorySize) /\ udt2 = DephazeUDT(HistorySize)
    /\ inputs = << >> /\ outs = << >> /\ outs2 = << >> /\ wallclock = 0

TopologyIdle == tcall = << >>
SessionIdle == snap = None /\ primary = None /\ wikiCalls = << >>
IngestIdle == icall = << >>
ToolIdle == aload = << >> /\ world = << >> /\ merger = << >> /\ sampled = << >>

Init ==
    /\ EngineIdle /\ FieldIdle /\ LambdaIdle
    /\ TopologyIdle /\ SessionIdle /\ IngestIdle /\ ToolIdle

\* udt.forward(p)
Forward ==
    /\ Len(inputs) < MaxCalls
    /\ \E p \in Prompts :
          \E r \in {DephazeUDT_forward(udt, p, TRUE, NoEvidence)} :
              /\ udt' = r.udt
              /\ outs' = Append(outs, r.bundle)
              /\ inputs' = Append(inputs, p)
    /\ UNCHANGED << udt2, outs2, wallclock, fieldVars, lambdaVars, otherVars >>

\* udt2.forward(p) for the next input udt was given
Replay ==
    /\ Len(outs2) < Len(inputs)
    /\ \E r \in {DephazeUDT_forward(udt2, inputs[Len(outs2) + 1], TRUE,
                                  NoEvidence)} :
           /\ udt2' = r.udt
           /\ outs2' = Append(outs2, r.bundle)
    /\ UNCHANGED << udt, outs, inputs, wallclock, fieldVars, lambdaVars, otherVars >>

\* time passes between two calls
Tick ==
    /\ wallclock' = 1 - wallclock
    /\ UNCHANGED << udt, udt2, inputs, outs, outs2, fieldVars, lambdaVars, otherVars >>

Next == Forward \/ Replay \/ Tick

Spec == Init /\ [][Next]_vars

\* ------------------------------------------------------------------
\* Properties of the engine
\* ------------------------------------------------------------------
\* the coordinates pushed to the memory of udt, in push order
Pushed == [i \in 1..Len(outs) |-> outs[i].lambda_result.chosen]

\* the memory udt's i-th forward() resolved against: xi and spread
XiAtCall(i) ==
    IF i = 1 THEN Scale ELSE RoundDiv(outs[i - 1].sigma_audit.xi * Scale, AuditScale)
SpreadAtCall(i) ==
    IF i = 1 THEN 0 ELSE RoundDiv(outs[i - 1].sigma_audit.spread * Scale, AuditScale)

C2_CoordinateBounds ==
    /\ \A i \in 1..Len(udt.sigma.recent) : InBounds(udt.sigma.recent[i])
    /\ \A i \in 1..Len(udt.godel_field) :
          /\ InBounds(udt.godel_field[i].s_phase)
          /\ InBounds(udt.godel_field[i].o_phase)
          /\ InBounds(udt.godel_field[i].e_phase)
    /\ \A i \in 1..Len(outs) :
          /\ InBounds(outs[i].imago_phase)
          /\ InBounds(outs[i].lambda_result.chosen)

C2_Witness ==
    /\ \E i \in 1..Len(outs) : outs[i].imago_phase.rho = Scale
    /\ Len(udt.sigma.recent) = HistorySize
    /\ udt.godel_field # << >>

\* C3: the coordinate chosen by LambdaEngine.forward, and so every
\* coordinate pushed into the Coherence Memory, lies outside every
\* locked region of the canonical topology.
C3_ChosenOutsideLocked ==
    /\ \A i \in 1..Len(outs) : ~InLocked(outs[i].lambda_result.chosen)
    /\ \A i \in 1..Len(udt.sigma.recent) : ~InLocked(udt.sigma.recent[i])

\* C5: the confidence of every Resolution Result is
\* (0.5 + 0.5 tanh(2.5 (xi - 0.5))) exp(-0.85 max(0, spread)), rounded to
\* 4 decimals, for the xi and the spread the memory had at resolution time.
C5_ConfidenceDamped ==
    \A i \in 1..Len(outs) :
        outs[i].lambda_result.confidence = _confidence(XiAtCall(i), SpreadAtCall(i))

\* C6: the history never holds more than its maximum, and holds exactly
\* the last pushed coordinates in push order.
C6_BoundedFifo ==
    LET n == Len(Pushed)
        M == udt.sigma.history_size
    IN  /\ Len(udt.sigma.recent) <= M
        /\ udt.sigma.recent = SubSeq(Pushed, Max(1, n - M + 1), n)

C6_Witness ==
    /\ Len(outs) > udt.sigma.history_size
    /\ Len(udt.sigma.recent) = udt.sigma.history_size
    /\ \A i \in 1..Len(udt.sigma.recent) : udt.sigma.recent[i] # Pushed[1]

\* C7: xi = 1 / (1 + spread) for the spread of the coordinates stored after
\* the push, and xi lies in (0, 1].
C7_CoherenceInvariant ==
    /\ udt.sigma.xi = RoundDiv(Scale * Scale, Scale + spread(udt.sigma.recent))
    /\ 0 < udt.sigma.xi /\ udt.sigma.xi <= Scale

C7_Witness ==
    /\ Len(udt.sigma.recent) >= 2
    /\ spread(udt.sigma.recent) > 0
    /\ udt.sigma.xi < Scale

\* C8: directly after the first update of an empty memory xi is 1.0.
C8_FirstUpdateXiOne ==
    (Len(outs) = 1 /\ Len(udt.sigma.recent) = 1) => udt.sigma.xi = Scale

C8_Witness ==
    /\ Len(outs) = 1 /\ Len(udt.sigma.recent) = 1
    /\ udt.sigma.recent[1] # Origin

\* ------------------------------------------------------------------
\* A stand-alone relation field: GodelField(max_bridges=MaxBridges)
\* ------------------------------------------------------------------
FieldSubjects == {"Paris", " Rome ", ""}
FieldRelations == {"is", "IS "}
FieldObjects == {"the capital of France"}
FieldOrigins == {"user", "wiki"}
FieldStrengths == {-100, 300, 700}

\* the identity key add_relation computes for its arguments
CallKey(subject, relation, object_, origin) ==
    _stable_key(strip(subject), lower(strip(relation)), strip(object_), origin)

KeysOf(bridges) == {BridgeKey(bridges[i]) : i \in 1..Len(bridges)}

\* gf.add_relation(subject=.., relation=.., object_=.., mapper=..,
\*                 strength=.., origin=..)
AddRelation ==
    /\ Len(gfLog) < MaxAdds
    /\ \E subject \in FieldSubjects, relation \in FieldRelations,
          object_ \in FieldObjects, origin \in FieldOrigins,
          strength \in FieldStrengths :
          LET accepted == strip(subject) # "" /\ strip(relation) # ""
                          /\ strip(object_) # ""
              key == CallKey(subject, relation, object_, origin)
              gf2 == add_relation(gf, MaxBridges, subject, relation, object_,
                                  strength, origin)
          IN  /\ gf' = gf2
              /\ gfLog' = IF accepted
                          THEN Append(gfLog, [key |-> key,
                                              strength |-> Max(0, strength)])
                          ELSE gfLog
              /\ gfEvicted' = IF accepted
                              THEN gfEvicted \cup ((KeysOf(gf) \cup {key}) \ KeysOf(gf2))
                              ELSE gfEvicted
    /\ UNCHANGED << engineVars, lambdaVars, otherVars >>

NextField == AddRelation

SpecField == Init /\ [][NextField]_vars

\* ------------------------------------------------------------------
\* Properties of the relation field
\* ------------------------------------------------------------------
LogKeys == {gfLog[i].key : i \in 1..Len(gfLog)}

\* the largest zero-clamped strength added under a key
MaxAdded(k) ==
    LET ss == {gfLog[i].strength : i \in {j \in 1..Len(gfLog) : gfLog[j].key = k}}
    IN  CHOOSE m \in ss : \A x \in ss : x <= m

BridgesWithKey(k) == {i \in 1..Len(gf) : BridgeKey(gf[i]) = k}

\* C9: an identity added several times has at most one bridge; while the
\* capacity clamp has not discarded it, it has exactly one, whose strength
\* is the largest zero-clamped strength added for it.
C9_Deduplication ==
    \A k \in LogKeys :
        /\ Cardinality(BridgesWithKey(k)) <= 1
        /\ k \notin gfEvicted =>
              /\ Cardinality(BridgesWithKey(k)) = 1
              /\ \A i \in BridgesWithKey(k) : gf[i].strength = MaxAdded(k)

\* the identity was added with 0.7 and later with 0.3, and its bridge has 0.7
C9_Witness ==
    \E i, j \in 1..Len(gfLog) :
        /\ i < j /\ gfLog[i].key = gfLog[j].key
        /\ gfLog[i].strength = 700 /\ gfLog[j].strength = 300
        /\ gfLog[i].key \notin gfEvicted
        /\ \E b \in BridgesWithKey(gfLog[i].key) : gf[b].strength = 700

DistinctAdds == \A i, j \in 1..Len(gfLog) : gfLog[i].key = gfLog[j].key => i = j

\* C10: the field never holds more than max_bridges bridges; after N
\* distinct bridges were added it holds min(N, max_bridges) of them and no
\* discarded bridge is stronger than a kept one.
C10_Capacity ==
    /\ Len(gf) <= MaxBridges
    /\ DistinctAdds =>
          /\ Len(gf) = Min(Len(gfLog), MaxBridges)
          /\ \A i \in 1..Len(gfLog) :
                gfLog[i].key \notin KeysOf(gf) =>
                    \A b \in 1..Len(gf) : gfLog[i].strength <= gf[b].strength

\* more distinct bridges than the capacity were added, and an early, weak
\* one was discarded in favour of later, stronger ones
C10_Witness ==
    /\ DistinctAdds /\ Len(gfLog) > MaxBridges /\ Len(gf) = MaxBridges
    /\ gfLog[1].key \notin KeysOf(gf)
    /\ \A b \in 1..Len(gf) : gfLog[1].strength < gf[b].strength

\* ------------------------------------------------------------------
\* A stand-alone Resolution Operator: LambdaEngine.forward called with
\* duck-typed fields, on a memory updated through SigmaState.update
\* ------------------------------------------------------------------

\* objects offering resultant_vector
ResultantFields ==
    {[NoField EXCEPT !.resultant_vector = m] :
        m \in {NoMethod, Raises, Returns(<< 100, -200, 300 >>),
               ReturnsBad(<< 100, -200, 300 >>, 2)}}

\* objects offering some of pull_vector, as_lambda_payload, nearest; an
\* AtlasField holding one star
AtlasFields ==
    {[NoField EXCEPT !.pull_vector = pv, !.as_lambda_payload = pl, !.nearest = nr] :
        pv \in {NoMethod, Raises, Returns(<< -300, 200, 2000 >>)},
        pl \in {NoMethod, Raises, ReturnsOther, Returns(<< 250, 600, 800 >>)},
        nr \in {NoMethod, Raises, Returns(<< 250, 600, 800 >>)}}
    \cup {AtlasField(<< AtlasStar(100, 200, 300, 1000, 500) >>)}

\* mapped coordinates handed to the operator, and coordinates pushed to
\* the memory
LambdaImagos == {text_to_phase("paris"), text_to_phase("nc")}
LambdaPhases == {text_to_phase("paris"), text_to_phase("nc")}

\* LambdaEngine().forward(sigma=.., imago_phase=.., atlas=.., godel_field=..,
\*                        edge_field=..)
LambdaCall ==
    /\ lres = << >>
    /\ \E imago \in LambdaImagos, atlas \in AtlasFields,
          godel_field \in ResultantFields, edge_field \in ResultantFields :
          /\ largs' = << [imago_phase |-> imago, atlas |-> atlas,
                          godel_field |-> godel_field, edge_field |-> edge_field] >>
          /\ lres' = << LambdaEngine_forward(lsigma, imago, atlas, godel_field,
                                             edge_field) >>
    /\ UNCHANGED << lsigma, engineVars, fieldVars, otherVars >>

\* sigma.update(phase); the outcome of the last call is dropped
SigmaUpdate ==
    /\ \E phase \in LambdaPhases : lsigma' = update(lsigma, phase)
    /\ largs' = << >>
    /\ lres' = << >>
    /\ UNCHANGED << engineVars, fieldVars, otherVars >>

NextLambda == LambdaCall \/ SigmaUpdate

SpecLambda == Init /\ [][NextLambda]_vars

\* ------------------------------------------------------------------
\* Properties of the Resolution Operator
\* ------------------------------------------------------------------
\* some method of a field handed to the last call raises
SomeFieldRaises ==
    /\ largs # << >>
    /\ \/ largs[1].edge_field.resultant_vector.raises
       \/ largs[1].godel_field.resultant_vector.raises
       \/ largs[1].atlas.pull_vector.raises
       \/ largs[1].atlas.as_lambda_payload.raises
       \/ largs[1].atlas.nearest.raises

\* C4: when the pull-vector computation of a supplied field raises,
\* LambdaEngine.forward does not propagate the exception and returns a
\* Resolution Result.
C4_FieldFailureSwallowed ==
    (lres # << >> /\ SomeFieldRaises) => ~lres[1].raised

\* ------------------------------------------------------------------
\* The canonical topology on its own: default_topology().enforce(coord)
\* ------------------------------------------------------------------
\* coordinates around and inside rocksteeple_forbidden, on its faces, at
\* its centre, and beyond the global bounds
TopoThetas == {150, 200, 201, 250, 299, 300, 350}
TopoPhis == {450, 500, 501, 600, 699, 700, 750}
TopoRhos == {650, 700, 701, 850, 999, 1000, 1100}

Enforce ==
    /\ \E t \in TopoThetas, p \in TopoPhis, r \in TopoRhos :
          tcall' = << [coord |-> PhaseCoord(t, p, r),
                       res |-> enforce(default_topology, PhaseCoord(t, p, r))] >>
    /\ UNCHANGED << engineVars, fieldVars, lambdaVars, sessionVars, ingestVars, toolVars >>

NextTopology == Enforce

SpecTopology == Init /\ [][NextTopology]_vars

\* strictly inside some locked region of the canonical topology
StrictlyInLocked(c) ==
    \E i \in 1..Len(default_topology) :
        LET r == default_topology[i]
        IN  /\ r.locked
            /\ r.theta_range[1] < c.theta /\ c.theta < r.theta_range[2]
            /\ r.phi_range[1] < c.phi /\ c.phi < r.phi_range[2]
            /\ r.rho_range[1] < c.rho /\ c.rho < r.rho_range[2]

\* C11: enforce maps every coordinate strictly inside the locked region to
\* a coordinate outside every locked region and within the global bounds.
C11_EnforceLeavesLocked ==
    (tcall # << >> /\ StrictlyInLocked(tcall[1].coord)) =>
        /\ ~InLocked(tcall[1].res)
        /\ InBounds(tcall[1].res)

\* the centre of the locked region was enforced: theta and phi were pushed
\* past the far faces and rho, pushed to 1.02, was clamped to 1.0
C11_Witness ==
    /\ tcall # << >>
    /\ tcall[1].coord = PhaseCoord(250, 600, 850)
    /\ tcall[1].res = PhaseCoord(320, 720, 1000)

\* ------------------------------------------------------------------
\* The ingestion gate: forward() on an engine whose atlas pulls every
\* resolution toward one corner, so that the history disperses
\* ------------------------------------------------------------------
\* an atlas object whose pull_vector(start) returns (-1, -1, 1)
PullAtlas == [NoField EXCEPT !.pull_vector = Returns(<< -1000, -1000, 1000 >>)]

GateAtlases == {NoField, PullAtlas, GlobalAtlas(<< AtlasNode("n", 0, 0, 500) >>)}

GatePrompts ==
    {"qrc", "Rmd is a city", "Paris is the capital of France",
     "run Paris is the capital of France", "", "  "}

InitGate ==
    /\ \E atlas \in GateAtlases : udt = DephazeUDT_with(HistorySize, atlas, FALSE)
    /\ udt2 = DephazeUDT(HistorySize)
    /\ inputs = << >> /\ outs = << >> /\ outs2 = << >> /\ wallclock = 0
    /\ FieldIdle /\ LambdaIdle /\ TopologyIdle /\ SessionIdle /\ IngestIdle /\ ToolIdle

\* udt.forward(p)
GateForward ==
    /\ Len(inputs) < MaxCalls
    /\ \E p \in GatePrompts :
          \E r \in {DephazeUDT_forward(udt, p, TRUE, NoEvidence)} :
              /\ udt' = r.udt
              /\ outs' = Append(outs, r.bundle)
              /\ inputs' = Append(inputs, p)
    /\ UNCHANGED << udt2, outs2, wallclock, fieldVars, lambdaVars, otherVars >>

NextGate == GateForward

SpecGate == InitGate /\ [][NextGate]_vars

\* the audit of the last call passes the thresholds 0.62 and 0.80
LastAuditPasses(bundles) ==
    /\ bundles[Len(bundles)].sigma_audit.xi >= 620000
    /\ bundles[Len(bundles)].sigma_audit.spread <= 800000

\* C12: a forward() call changes the Relation Field only if the kind of
\* the input is neither NOISE nor COMMAND_SHAPE and the audit taken in
\* that call after the memory update has xi >= 0.62 and spread <= 0.80.
C12_IngestionGate ==
    [][udt'.godel_field # udt.godel_field =>
          /\ classify_prompt(inputs'[Len(inputs')]) \notin {"NOISE", "COMMAND_SHAPE"}
          /\ LastAuditPasses(outs')]_vars

\* the second call carried a clean relation of an eligible input while its
\* audit failed the gate, and the field is still empty; the first call
\* (an entity) carried none
C12_Witness ==
    /\ Len(outs) = 2
    /\ inputs[2] = "Rmd is a city"
    /\ outs[2].godel.relations # << >>
    /\ outs[2].sigma_audit.xi < 620000
    /\ outs[2].sigma_audit.spread <= 800000
    /\ udt.godel_field = << >>

\* ------------------------------------------------------------------
\* run_udt.py : exploratory branches of a session.  A branch is
\*   snap = sigma_snapshot(udt); udt.forward(text, use_wiki=False);
\*   sigma_restore(udt, snap)
\* ------------------------------------------------------------------
\* list(xs) builds a new list: later changes of xs do not show in it.
\* A list object is its items, or a reference to the live deque.
ListCopy(xs) == [shared |-> FALSE, items |-> xs]
ListItems(l, live) == IF l.shared THEN live ELSE l.items

\* a snapshot that keeps a reference to the live deque
sigma_snapshot_live(e) ==
    [xi |-> e.sigma.xi, recent |-> [shared |-> TRUE, items |-> e.sigma.recent]]

sigma_snapshot(e) ==
    [xi |-> e.sigma.xi, recent |-> ListCopy(e.sigma.recent)]

\* udt.sigma.xi = snap["xi"]; udt.sigma.history.recent = deque(snap["recent"])
sigma_restore(e, s) ==
    [e EXCEPT !.sigma.xi = s.xi,
              !.sigma.recent = ListItems(s.recent, e.sigma.recent)]

\* inputs of the primary session, and texts of its branches (the prompt,
\* the title and the extract of a fetched item, joined)
SessionPrompts == {"paris", "nc", "Paris is the capital of France"}
BranchTexts == {"paris :: Paris. Paris is the capital of France", "nc", ""}

\* bundle = udt.forward(prompt, use_wiki=False), outside any branch
Ask ==
    /\ snap = None
    /\ Len(inputs) < MaxCalls
    /\ \E p \in SessionPrompts :
          \E r \in {DephazeUDT_forward(udt, p, FALSE, NoEvidence)} :
              /\ udt' = r.udt
              /\ outs' = Append(outs, r.bundle)
              /\ inputs' = Append(inputs, p)
    /\ UNCHANGED << udt2, outs2, wallclock, fieldVars, lambdaVars, otherVars >>

\* snap = sigma_snapshot(udt)
Snapshot ==
    /\ snap = None
    /\ Len(inputs) < MaxCalls
    /\ snap' = sigma_snapshot(udt)
    /\ primary' = [udt |-> udt, calls |-> Len(inputs)]
    /\ UNCHANGED << engineVars, fieldVars, lambdaVars, topoVars, ingestVars, toolVars,
                    wikiCalls >>

\* branch = udt.forward(text, use_wiki=False)
Speculate ==
    /\ snap # None
    /\ Len(inputs) < MaxCalls
    /\ \E text \in BranchTexts :
          \E r \in {DephazeUDT_forward(udt, text, FALSE, NoEvidence)} :
              /\ udt' = r.udt
              /\ outs' = Append(outs, r.bundle)
              /\ inputs' = Append(inputs, text)
    /\ UNCHANGED << udt2, outs2, wallclock, fieldVars, lambdaVars, otherVars >>

\* sigma_restore(udt, snap)
Restore ==
    /\ snap # None
    /\ udt' = sigma_restore(udt, snap)
    /\ snap' = None
    /\ UNCHANGED << udt2, inputs, outs, outs2, wallclock, fieldVars, lambdaVars,
                    topoVars, ingestVars, toolVars, primary, wikiCalls >>

NextBranch == Ask \/ Snapshot \/ Speculate \/ Restore

SpecBranch == Init /\ [][NextBranch]_vars

\* C13: while a snapshot is held, speculative pushes to the live memory
\* leave it equal to the memory at the snapshot (history contents, their
\* order, xi), and sigma_restore leaves the Coherence Memory equal to its
\* state at the snapshot.
C13_SnapshotRestore ==
    /\ [](snap # None =>
             /\ snap.xi = primary.udt.sigma.xi
             /\ ListItems(snap.recent, udt.sigma.recent) = primary.udt.sigma.recent)
    /\ [][(snap # None /\ snap' = None) => udt'.sigma = primary.udt.sigma]_vars

\* a full history was snapshot, two speculative calls followed (each
\* evicting an entry of the history) and the memory has been restored
C13_Witness ==
    /\ snap = None /\ primary # None
    /\ Len(primary.udt.sigma.recent) = HistorySize
    /\ Len(inputs) = primary.calls + 2
    /\ outs[Len(outs)].sigma_audit.xi # primary.udt.sigma.xi * 1000
    /\ udt.sigma = primary.udt.sigma

\* C14: a speculative forward() run between sigma_snapshot and
\* sigma_restore leaves the Relation Field equal to what it was at the
\* snapshot.
C14_BranchLeavesField ==
    [][(snap # None /\ snap' = None) =>
          udt'.godel_field = primary.udt.godel_field]_vars

\* ------------------------------------------------------------------
\* Repetition: an engine is fed one input, then a second input
\* MaxRepeats times in sequence
\* ------------------------------------------------------------------
\* the engine is built without an atlas, or with a GlobalAtlas of one node
RepeatAtlases ==
    {NoField,
     GlobalAtlas(<< AtlasNode("n", -500, -500, 200) >>),
     GlobalAtlas(<< AtlasNode("n", 0, 0, 500) >>)}

InitRepeat ==
    /\ \E atlas \in RepeatAtlases : udt = DephazeUDT_with(HistorySize, atlas, FALSE)
    /\ udt2 = DephazeUDT(HistorySize)
    /\ inputs = << >> /\ outs = << >> /\ outs2 = << >> /\ wallclock = 0
    /\ FieldIdle /\ LambdaIdle /\ TopologyIdle /\ SessionIdle /\ IngestIdle /\ ToolIdle

\* udt.forward(p): the first two inputs are free, every later input is
\* the one before it
Repeat ==
    /\ Len(inputs) < MaxRepeats + 1
    /\ \E p \in Prompts :
          /\ Len(inputs) >= 2 => p = inputs[Len(inputs)]
          /\ \E r \in {DephazeUDT_forward(udt, p, TRUE, NoEvidence)} :
                /\ udt' = r.udt
                /\ outs' = Append(outs, r.bundle)
                /\ inputs' = Append(inputs, p)
    /\ UNCHANGED << udt2, outs2, wallclock, fieldVars, lambdaVars, otherVars >>

NextRepeat == Repeat

SpecRepeat == InitRepeat /\ [][NextRepeat]_vars

\* the call at which the run of one repeated input starts
RunStart == IF Len(inputs) >= 2 /\ inputs[1] = inputs[2] THEN 1 ELSE 2

\* distance between the coordinates resolved by calls i and i + 1
StepDistance(i) ==
    distance_to(outs[i].lambda_result.chosen, outs[i + 1].lambda_result.chosen)

\* distance of the coordinate resolved by call i to the mapped coordinate
\* of its input
MappedDistance(i) ==
    distance_to(outs[i].lambda_result.chosen, outs[i].imago_phase)

\* within the run of one repeated input, successive resolved coordinates
\* never move further apart, each is at least as near to the mapped
\* coordinate as the one before, and the 50th is within 0.002 of it
RepetitionConverges ==
    /\ \A i \in (RunStart + 1)..(Len(outs) - 1) : StepDistance(i) <= StepDistance(i - 1)
    /\ \A i \in RunStart..(Len(outs) - 1) : MappedDistance(i + 1) <= MappedDistance(i)
    /\ Len(outs) >= RunStart + 49 => MappedDistance(RunStart + 49) <= 2

\* C15 as stated: feeding the same input 50 times in sequence on one
\* engine, the distance between successive resolved coordinates is
\* non-increasing from call to call and the resolved coordinate converges
\* toward the mapped coordinate of that input.
C15_RepetitionConvergesAnyEngine == RepetitionConverges

\* C15 amended: on an engine whose reference field supplies no pull (none
\* is given, the default), feeding the same input 50 times in sequence,
\* the distance between successive resolved coordinates is non-increasing
\* from call to call and the resolved coordinate converges toward the
\* mapped coordinate of that input.
C15_RepetitionConverges == udt.atlas = NoField => RepetitionConverges

\* an engine without atlas resolved "nc", then "paris" 50 times: the
\* first steps of the run differ, the last resolved coordinate is within
\* 0.002 of the mapped one
C15_Witness ==
    /\ udt.atlas = NoField
    /\ Len(outs) = 51
    /\ inputs[1] = "nc" /\ inputs[2] = "paris"
    /\ StepDistance(3) < StepDistance(2)
    /\ MappedDistance(51) <= 2

\* no field handed to the last call supplies a pull vector: each is
\* without the method probed, or the call raises inside its try block,
\* or the value returned has none of theta, phi, rho
NoPullSupplied ==
    /\ largs # << >>
    /\ \A f \in {largs[1].edge_field, largs[1].godel_field} :
          ~f.resultant_vector.has \/ f.resultant_vector.raises
    /\ ~largs[1].atlas.pull_vector.has
    /\ \A m \in {largs[1].atlas.as_lambda_payload, largs[1].atlas.nearest} :
          ~m.has \/ m.raises \/ ~m.ok

\* the coordinate last pushed to the memory handed to the operator
LastPushed ==
    IF lsigma.recent = << >> THEN [theta |-> 0, phi |-> 0, rho |-> 0]
    ELSE lsigma.recent[Len(lsigma.recent)]

\* C16: when no field supplies a pull vector, LambdaEngine.forward
\* returns, per axis, clamp(start + 0.45 * (mapped - start)) with mode
\* tags "POOR + PCM", where start is the coordinate last pushed to the
\* memory, or the origin when the memory is empty.
C16_BaseStep ==
    NoPullSupplied =>
        /\ ~lres[1].raised
        /\ lres[1].mode = "POOR + PCM"
        /\ lres[1].chosen.theta =
              Max(-1000, Min(1000, LastPushed.theta
                  + RoundDiv(450 * (largs[1].imago_phase.theta - LastPushed.theta), 1000)))
        /\ lres[1].chosen.phi =
              Max(-1000, Min(1000, LastPushed.phi
                  + RoundDiv(450 * (largs[1].imago_phase.phi - LastPushed.phi), 1000)))
        /\ lres[1].chosen.rho =
              Max(0, Min(1000, LastPushed.rho
                  + RoundDiv(450 * (largs[1].imago_phase.rho - LastPushed.rho), 1000)))

\* the memory holds "paris" then "nc", the relation field's
\* resultant_vector raised, and "paris" was resolved from "nc"
C16_Witness ==
    /\ NoPullSupplied
    /\ lsigma.recent = << text_to_phase("paris"), text_to_phase("nc") >>
    /\ largs[1].imago_phase = text_to_phase("paris")
    /\ largs[1].godel_field.resultant_vector.raises
    /\ lres[1].chosen # text_to_phase("paris")
    /\ lres[1].chosen # text_to_phase("nc")

\* C17: when the Resolution Operator is given an AtlasField that holds at
\* least one star, it obtains a pull toward a star from it and the mode
\* tags of the result include ATLAS.
C17_AtlasFieldPull ==
    (/\ largs # << >>
     /\ "stars" \in DOMAIN largs[1].atlas
     /\ largs[1].atlas.stars # << >>) =>
        /\ ~lres[1].raised
        /\ lres[1].mode \in {"POOR + PCM + ATLAS", "POOR + PCM + EDGE + ATLAS",
                             "POOR + PCM + GODEL_FIELD + ATLAS",
                             "POOR + PCM + EDGE + GODEL_FIELD + ATLAS"}

\* ------------------------------------------------------------------
\* Empty input, on the engines of SpecGate
\* ------------------------------------------------------------------
\* every input that is empty after normalization was mapped to (0,0,0),
\* and if it was the first input of the engine the memory's xi was 1.0
\* after the call
EmptyInputMapped ==
    \A i \in 1..Len(outs) :
        _normalize(inputs[i]) = "" =>
            /\ outs[i].imago_phase = [theta |-> 0, phi |-> 0, rho |-> 0]
            /\ i = 1 => outs[1].sigma_audit.xi = 1000000
            /\ Len(outs) = 1 => udt.sigma.xi = 1000

\* the first input of the engine was empty after normalization and was
\* not resolved to (0,0,0)
EmptyInputMoved ==
    /\ outs # << >>
    /\ _normalize(inputs[1]) = ""
    /\ outs[1].lambda_result.chosen # [theta |-> 0, phi |-> 0, rho |-> 0]

\* C18 as stated: for any input that is empty after normalization
\* forward() returns the mapped coordinate (0,0,0); on a fresh engine the
\* resolved coordinate is also (0,0,0) and after that one call the
\* memory's coherence ratio xi is 1.0.
C18_EmptyInputAnyEngine == EmptyInputMapped /\ ~EmptyInputMoved

\* C18 amended: for any input that is empty after normalization forward()
\* returns the mapped coordinate (0,0,0) and, on a fresh engine, leaves
\* the memory's xi at 1.0; on a fresh engine whose reference field
\* supplies no pull the resolved coordinate is also (0,0,0).
C18_EmptyInput ==
    /\ EmptyInputMapped
    /\ udt.atlas = NoField => ~EmptyInputMoved

\* a fresh engine without atlas was given a whitespace-only input, then
\* "qrc", then the empty input, which was resolved away from (0,0,0)
C18_Witness ==
    /\ udt.atlas = NoField
    /\ inputs = << "  ", "qrc", "" >>
    /\ outs[1].prompt = ""
    /\ outs[1].lambda_result.chosen = [theta |-> 0, phi |-> 0, rho |-> 0]
    /\ outs[3].imago_phase = [theta |-> 0, phi |-> 0, rho |-> 0]
    /\ outs[3].lambda_result.chosen # [theta |-> 0, phi |-> 0, rho |-> 0]

\* ------------------------------------------------------------------
\* Evidence: forward() on an engine built with an evidence provider.
\* udt2 and outs2 hold what the same call does on the same engine
\* without the provider.
\* ------------------------------------------------------------------
\* what wiki.search_and_fetch(p) does when called: raises, finds nothing,
\* or returns a title and an extract
Fetches ==
    {[raises |-> TRUE, title |-> NoneText, extract |-> NoneText],
     NoEvidence,
     [raises |-> FALSE, title |-> "Rome", extract |-> "Rome is a city"]}

EvidencePrompts ==
    {"paris", "Paris is the capital of France",
     "run Paris is the capital of France", "", "  "}

InitEvidence ==
    /\ udt = DephazeUDT_with(HistorySize, NoField, TRUE)
    /\ udt2 = DephazeUDT(HistorySize)
    /\ inputs = << >> /\ outs = << >> /\ outs2 = << >> /\ wallclock = 0
    /\ FieldIdle /\ LambdaIdle /\ TopologyIdle /\ SessionIdle /\ IngestIdle /\ ToolIdle

\* udt.forward(p, use_wiki=use_wiki)
AskEvidence ==
    /\ Len(inputs) < MaxAsks
    /\ \E p \in EvidencePrompts, use_wiki \in BOOLEAN, fetch \in Fetches :
          \E r \in {DephazeUDT_forward(udt, p, use_wiki, fetch)},
             r0 \in {DephazeUDT_forward([udt EXCEPT !.wiki = FALSE], p, use_wiki,
                                        fetch)} :
              /\ udt' = r.udt
              /\ outs' = Append(outs, r.bundle)
              /\ udt2' = r0.udt
              /\ outs2' = Append(outs2, r0.bundle)
              /\ inputs' = Append(inputs, p)
              /\ wikiCalls' = Append(wikiCalls,
                                     [use_wiki |-> use_wiki,
                                      raised |-> r.called /\ fetch.raises,
                                      calls |-> r.calls])
    /\ UNCHANGED << wallclock, fieldVars, lambdaVars, topoVars, ingestVars, toolVars,
                    snap, primary >>

NextEvidence == AskEvidence

SpecEvidence == InitEvidence /\ [][NextEvidence]_vars

\* C19: forward() calls the evidence provider at most once per input,
\* never for NOISE or COMMAND_SHAPE inputs or when use_wiki is false; if
\* the call raises, forward() completes with title and extract absent and
\* with the same resolution, memory update and relation ingestion as a
\* call with no provider.
C19_EvidenceFetch ==
    \A i \in 1..Len(wikiCalls) :
        /\ wikiCalls[i].calls <= 1
        /\ (\/ classify_prompt(outs[i].prompt) \in {"NOISE", "COMMAND_SHAPE"}
            \/ ~wikiCalls[i].use_wiki) => wikiCalls[i].calls = 0
        /\ wikiCalls[i].raised =>
              /\ outs[i].wiki_title = NoneText
              /\ outs[i].wiki_extract = NoneText
              /\ outs[i] = outs2[i]
              /\ i = Len(wikiCalls) =>
                    /\ udt.sigma = udt2.sigma
                    /\ udt.godel_field = udt2.godel_field

\* the provider returned evidence on the first call (a relation of origin
\* wiki was ingested) and raised on the second, which ingested the
\* user's relation only; a command-shaped input would not have called it
C19_Witness ==
    /\ Len(wikiCalls) = 2
    /\ wikiCalls[1].calls = 1 /\ ~wikiCalls[1].raised
    /\ outs[1].wiki_title = "Rome"
    /\ wikiCalls[2].calls = 1 /\ wikiCalls[2].raised
    /\ inputs[2] = "Paris is the capital of France"
    /\ Len(udt.godel_field) = 2
    /\ \E j \in 1..2 : udt.godel_field[j].origin = "wiki"

\* ------------------------------------------------------------------
\* The ingest of one forward() call, on an engine with an empty Relation
\* Field: _ingest_godel_field(sigma_audit=.., user_rel=.., wiki_rel=..,
\* global_rel=..)
\* ------------------------------------------------------------------
PoolSubjects ==
    << "s01", "s02", "s03", "s04", "s05", "s06", "s07", "s08", "s09", "s10",
       "s11", "s12" >>

\* cleaned relations, all distinct
IngestPool == [i \in 1..Len(PoolSubjects) |-> Relation(PoolSubjects[i], "is", "a city")]

\* audits that pass the gate (xi 1.0 and 0.7) and one that does not
IngestAudits ==
    {[history_len |-> 1, xi |-> 1000000, spread |-> 0],
     [history_len |-> 2, xi |-> 700000, spread |-> 428571],
     [history_len |-> 2, xi |-> 600000, spread |-> 666667]}

Ingest ==
    /\ icall = << >>
    /\ \E nu \in 0..MaxRelations, nw \in 0..MaxRelations, ng \in 0..MaxRelations,
          a \in IngestAudits :
          icall' = << [sigma_audit |-> a,
                       user_rel |-> SubSeq(IngestPool, 1, nu),
                       wiki_rel |-> SubSeq(IngestPool, 1, nw),
                       global_rel |-> SubSeq(IngestPool, 1, ng),
                       bridges |-> _ingest_godel_field(<< >>, a,
                                       SubSeq(IngestPool, 1, nu),
                                       SubSeq(IngestPool, 1, nw),
                                       SubSeq(IngestPool, 1, ng))] >>
    /\ UNCHANGED << engineVars, fieldVars, lambdaVars, topoVars, sessionVars, toolVars >>

NextIngest == Ingest

SpecIngest == Init /\ [][NextIngest]_vars

\* the first relations of a list, at most cap of them, as (origin,
\* subject) pairs
Front(relations, origin, cap) ==
    [i \in 1..(IF Len(relations) < cap THEN Len(relations) ELSE cap) |->
        << origin, relations[i].subject >>]

\* C20: in one call whose gate passes, the relations handed to the
\* Relation Field are the first 8 at most of the user list, then the first
\* 10 at most of the wiki list, then the first 6 at most of the global
\* list, each in order; the field grows by at most 24 bridges.
C20_IngestCaps ==
    (icall # << >> /\ icall[1].sigma_audit.xi >= 620000
                   /\ icall[1].sigma_audit.spread <= 800000) =>
        /\ [i \in 1..Len(icall[1].bridges) |->
               << icall[1].bridges[i].origin, icall[1].bridges[i].subject >>]
           = Front(icall[1].user_rel, "user", 8)
               \o Front(icall[1].wiki_rel, "wiki", 10)
               \o Front(icall[1].global_rel, "global", 6)
        /\ Len(icall[1].bridges) <= 24

\* eleven relations of every origin were offered with the gate open, and
\* the field holds 24 bridges
C20_Witness ==
    /\ icall # << >>
    /\ Len(icall[1].user_rel) = 11
    /\ Len(icall[1].wiki_rel) = 11
    /\ Len(icall[1].global_rel) = 11
    /\ icall[1].sigma_audit.xi = 700000
    /\ Len(icall[1].bridges) = 24

\* ------------------------------------------------------------------
\* AtlasField.load: reading a reference snapshot
\* ------------------------------------------------------------------
\* number of entries under "stars" in a snapshot file
MaxStars == 3

\* JSON values of an entry's fields; JAbsent is a key the entry lacks
JNum(v) == [kind |-> "number", v |-> v, text |-> ""]
JStr(t) == [kind |-> "string", v |-> 0, text |-> t]
JBool(b) == [kind |-> "bool", v |-> IF b THEN Scale ELSE 0, text |-> ""]
JNull == [kind |-> "null", v |-> 0, text |-> ""]
JAbsent == [kind |-> "absent", v |-> 0, text |-> ""]

\* the strings float() parses, with their values
FloatTexts == [t \in {"0.5", " 1 "} |-> IF t = "0.5" THEN 500 ELSE 1000]

\* float(val): a number, or an exception
float_of(val) ==
    CASE val.kind = "number" -> [ok |-> TRUE, v |-> val.v]
      [] val.kind = "bool" -> [ok |-> TRUE, v |-> val.v]
      [] val.kind = "string" /\ val.text \in DOMAIN FloatTexts ->
            [ok |-> TRUE, v |-> FloatTexts[val.text]]
      [] OTHER -> [ok |-> FALSE, v |-> 0]

\* float(obj[key]): a missing key raises KeyError
float_item(obj, key) ==
    IF obj[key].kind = "absent" THEN [ok |-> FALSE, v |-> 0]
    ELSE float_of(obj[key])

\* float(obj.get(key, default))
float_get(obj, key, default) ==
    IF obj[key].kind = "absent" THEN [ok |-> TRUE, v |-> default]
    ELSE float_of(obj[key])

\* an entry that is a JSON object, and one that is not
StarEntry(x, y, z, weight, sigma_xi, sigma_spread) ==
    [dict |-> TRUE, x |-> x, y |-> y, z |-> z, weight |-> weight,
     sigma_xi |-> sigma_xi, sigma_spread |-> sigma_spread]
NotAnObject ==
    [dict |-> FALSE, x |-> JAbsent, y |-> JAbsent, z |-> JAbsent,
     weight |-> JAbsent, sigma_xi |-> JAbsent, sigma_spread |-> JAbsent]

star_quality_unclamped(sigma_xi, sigma_spread) ==
    Mul(sigma_xi, Scale - sigma_spread)

\* quality = max(0.0, sigma_xi * (1.0 - spread))
star_quality(sigma_xi, sigma_spread) ==
    Max(0, Mul(sigma_xi, Scale - sigma_spread))

\* the body of the try block for one entry: the star, or an exception
load_star(obj) ==
    IF ~obj.dict THEN [ok |-> FALSE, star |-> None]
    ELSE IF \E r \in {float_item(obj, "x"), float_item(obj, "y"),
                      float_item(obj, "z"),
                      float_get(obj, "weight", Scale),
                      float_get(obj, "sigma_xi", 0),
                      float_get(obj, "sigma_spread", Scale)} : ~r.ok
         THEN [ok |-> FALSE, star |-> None]
    ELSE [ok |-> TRUE,
          star |-> AtlasStar(float_item(obj, "x").v, float_item(obj, "y").v,
                             float_item(obj, "z").v,
                             float_get(obj, "weight", Scale).v,
                             star_quality(
                                 float_get(obj, "sigma_xi", 0).v,
                                 float_get(obj, "sigma_spread", Scale).v))]

RECURSIVE load_stars_unguarded(_, _, _)
load_stars_unguarded(entries, i, stars) ==
    IF i > Len(entries) THEN [raised |-> FALSE, stars |-> stars]
    ELSE IF ~load_star(entries[i]).ok THEN [raised |-> TRUE, stars |-> << >>]
    ELSE load_stars_unguarded(entries, i + 1,
                              Append(stars, load_star(entries[i]).star))

\* the loop over raw["stars"].values(): an entry whose try block raises is
\* skipped
RECURSIVE load_stars(_, _, _)
load_stars(entries, i, stars) ==
    IF i > Len(entries) THEN [raised |-> FALSE, stars |-> stars]
    ELSE IF ~load_star(entries[i]).ok THEN load_stars(entries, i + 1, stars)
    ELSE load_stars(entries, i + 1,
                    Append(stars, load_star(entries[i]).star))

\* AtlasField.load(path) of a file holding the object raw
load(raw) ==
    IF load_stars(IF "stars" \in DOMAIN raw THEN raw.stars ELSE << >>,
                  1, << >>).raised
    THEN [raised |-> TRUE, field |-> None]
    ELSE [raised |-> FALSE,
          field |-> AtlasField(
              load_stars(IF "stars" \in DOMAIN raw THEN raw.stars
                         ELSE << >>, 1, << >>).stars)]

\* coherence metadata of the entries: (sigma_xi, sigma_spread)
StarMetadata ==
    { << JNum(1000), JNum(0) >>, << JNum(500), JNum(500) >>,
      << JAbsent, JAbsent >>, << JNum(800), JAbsent >>,
      << JNum(500), JNum(1500) >>, << JNum(2000), JNum(0) >>,
      << JStr("0.5"), JNum(0) >>, << JStr("high"), JNum(0) >> }

\* the entries a snapshot may hold
StarEntries ==
    { StarEntry(JNum(100), JNum(200), JNum(300), JNum(2000), m[1], m[2]) :
        m \in StarMetadata }
    \cup { StarEntry(JNum(-100), JNum(0), JNum(50), w, JNum(700), JNum(100)) :
             w \in {JAbsent, JNull, JBool(TRUE)} }
    \cup { StarEntry(c[1], c[2], c[3], JNum(1000), JNum(600), JNum(0)) :
             c \in { << JAbsent, JNum(0), JNum(0) >>,
                     << JNum(0), JStr("north"), JNum(0) >>,
                     << JStr(" 1 "), JNum(0), JNum(0) >> } }
    \cup { NotAnObject }

\* the snapshot files: without a "stars" key, or with up to MaxStars
\* entries under it
Snapshots ==
    { [version |-> 1] }
    \cup { [version |-> 1, stars |-> s] :
             s \in UNION { [1..n -> StarEntries] : n \in 0..MaxStars } }

\* AtlasField.load(path) where the file holds raw
Load ==
    /\ aload = << >>
    /\ \E raw \in Snapshots :
           aload' = << [raw |-> raw, res |-> load(raw)] >>
    /\ UNCHANGED << engineVars, fieldVars, lambdaVars, topoVars, sessionVars,
                    ingestVars, world, merger, sampled >>

NextLoad == Load

SpecLoad == Init /\ [][NextLoad]_vars

\* a field value of an entry that reads as a number
IsNumeric(val) ==
    \/ val.kind \in {"number", "bool"}
    \/ val.kind = "string" /\ val.text \in DOMAIN FloatTexts

\* an entry with numeric x, y and z whose optional fields, where present,
\* are numeric
WellFormed(obj) ==
    /\ obj.dict
    /\ \A k \in {"x", "y", "z"} : IsNumeric(obj[k])
    /\ \A k \in {"weight", "sigma_xi", "sigma_spread"} :
           obj[k].kind = "absent" \/ IsNumeric(obj[k])

RECURSIVE KeepWellFormed(_)
KeepWellFormed(entries) ==
    IF entries = << >> THEN << >>
    ELSE (IF WellFormed(Head(entries)) THEN << Head(entries) >> ELSE << >>)
         \o KeepWellFormed(Tail(entries))

\* the entries of the snapshot the last load read
LoadedEntries ==
    IF "stars" \in DOMAIN aload[1].raw THEN aload[1].raw.stars ELSE << >>

\* the number a numeric field value stands for, or the default when absent
NumberOf(val, default) ==
    CASE val.kind = "absent" -> default
      [] val.kind = "string" -> FloatTexts[val.text]
      [] OTHER -> val.v

\* C21: load returns, whatever the entries are, a field whose stars are the
\* well-formed entries of the snapshot, in snapshot order
C21_LoadSkipsMalformed ==
    aload # << >> =>
        /\ ~aload[1].res.raised
        /\ LET kept == KeepWellFormed(LoadedEntries)
               stars == aload[1].res.field.stars
           IN /\ Len(stars) = Len(kept)
              /\ \A i \in 1..Len(kept) :
                     /\ stars[i].x = NumberOf(kept[i].x, 0)
                     /\ stars[i].y = NumberOf(kept[i].y, 0)
                     /\ stars[i].z = NumberOf(kept[i].z, 0)
                     /\ stars[i].weight = NumberOf(kept[i].weight, Scale)

\* a snapshot with a malformed entry between two different well-formed
\* ones was loaded, and the field holds the two
C21_Witness ==
    /\ aload # << >>
    /\ Len(LoadedEntries) = 3
    /\ WellFormed(LoadedEntries[1])
    /\ ~WellFormed(LoadedEntries[2])
    /\ WellFormed(LoadedEntries[3])
    /\ LoadedEntries[1].x # LoadedEntries[3].x
    /\ ~aload[1].res.raised
    /\ Len(aload[1].res.field.stars) = 2

\* the quality the coherence metadata of an entry stands for
MetadataQuality(obj) ==
    Max(0, Mul(NumberOf(obj.sigma_xi, 0),
               Scale - NumberOf(obj.sigma_spread, Scale)))

\* the i-th star of the loaded field has the quality of its entry
QualityFromMetadata(i) ==
    aload[1].res.field.stars[i].quality
        = MetadataQuality(KeepWellFormed(LoadedEntries)[i])

QualityInUnit(i) ==
    /\ aload[1].res.field.stars[i].quality >= 0
    /\ aload[1].res.field.stars[i].quality <= Scale

\* C22 as stated: every loaded star has the quality of its metadata, and
\* that quality lies in [0, 1]
C22_QualityAnyMetadata ==
    (aload # << >> /\ ~aload[1].res.raised) =>
        \A i \in 1..Len(aload[1].res.field.stars) :
            QualityFromMetadata(i) /\ QualityInUnit(i)

\* C22: every loaded star has the quality max(0, sigma_xi * (1 -
\* sigma_spread)) of its metadata, sigma_xi defaulting to 0 and
\* sigma_spread to 1; the quality lies in [0, 1] when sigma_xi lies in
\* [0, 1] and sigma_spread is not negative
C22_StarQuality ==
    (aload # << >> /\ ~aload[1].res.raised) =>
        \A i \in 1..Len(aload[1].res.field.stars) :
            /\ QualityFromMetadata(i)
            /\ LET obj == KeepWellFormed(LoadedEntries)[i]
               IN (/\ NumberOf(obj.sigma_xi, 0) >= 0
                   /\ NumberOf(obj.sigma_xi, 0) <= Scale
                   /\ NumberOf(obj.sigma_spread, Scale) >= 0)
                  => QualityInUnit(i)

\* a star with metadata (0.5, 0.5) was loaded with quality 0.25, next to
\* one whose spread above 1 gives quality 0
C22_Witness ==
    /\ aload # << >>
    /\ ~aload[1].res.raised
    /\ \E i, j \in 1..Len(aload[1].res.field.stars) :
           /\ KeepWellFormed(LoadedEntries)[i].sigma_xi = JNum(500)
           /\ KeepWellFormed(LoadedEntries)[i].sigma_spread = JNum(500)
           /\ aload[1].res.field.stars[i].quality = 250
           /\ KeepWellFormed(LoadedEntries)[j].sigma_spread = JNum(1500)
           /\ aload[1].res.field.stars[j].quality = 0

\* ------------------------------------------------------------------
\* GRM persistence and the world lock
\* ------------------------------------------------------------------
\* number of changes made to a persisted file after it was written
MaxEdits == 2

GRM_VERSION == "grm-1.0"
WORLDLOCK_VERSION == "worldlock-1.0"

\* code-point order of the strings that get sorted
CodeOrder ==
    << "Lutece", "Lutetia", "Paname", "Q142", "Q64", "Q90", "blog", "user",
       "wiki" >>
StrRank(s) == CHOOSE i \in 1..Len(CodeOrder) : CodeOrder[i] = s

\* sorted(xs) for a list of strings
RECURSIVE InsertSorted(_, _)
InsertSorted(x, xs) ==
    IF xs = << >> THEN << x >>
    ELSE IF StrRank(x) < StrRank(Head(xs)) THEN << x >> \o xs
    ELSE << Head(xs) >> \o InsertSorted(x, Tail(xs))
RECURSIVE sorted(_)
sorted(xs) ==
    IF xs = << >> THEN << >>
    ELSE InsertSorted(xs[Len(xs)], sorted(SubSeq(xs, 1, Len(xs) - 1)))

\* sorted(nodes.keys())
RECURSIVE SortedKeys(_)
SortedKeys(keys) ==
    IF keys = {} THEN << >>
    ELSE LET k == CHOOSE a \in keys : \A b \in keys : StrRank(a) <= StrRank(b)
         IN << k >> \o SortedKeys(keys \ {k})

GRMNode(id, label, aliases, relations, sources) ==
    [id |-> id, label |-> label, aliases |-> aliases,
     relations |-> relations, sources |-> sources]

\* the object stored per node id in a persisted file
NodePayload(label, aliases, sources, relations) ==
    [label |-> label, aliases |-> aliases, sources |-> sources,
     relations |-> relations]

\* sha256 of a payload, idealised as collision-free: the digest stands for
\* the bytes it was computed from
_sha256_bytes(b) == [sha256 |-> b]

\* json.dumps(nodes, sort_keys=True, separators=(",", ":")): the node ids
\* in sorted order, each with its members in key order
dumps_sorted(nodes) ==
    [i \in 1..Cardinality(DOMAIN nodes) |->
        LET k == SortedKeys(DOMAIN nodes)[i]
        IN << k, nodes[k].aliases, nodes[k].label, nodes[k].relations,
              nodes[k].sources >>]

stable_payload_unsorted(n) ==
    NodePayload(n.label, n.aliases, n.sources, n.relations)

\* the per-node object built by compute_grm_hash and lock_world
stable_payload(n) ==
    NodePayload(n.label, sorted(n.aliases), sorted(n.sources), n.relations)

\* compute_grm_hash(nodes)
compute_grm_hash(nodes) ==
    _sha256_bytes(dumps_sorted(
        [k \in DOMAIN nodes |->
            NodePayload(nodes[k].label, sorted(nodes[k].aliases),
                        sorted(nodes[k].sources), nodes[k].relations)]))

\* the file lock_world(nodes, path) writes
lock_world(nodes) ==
    [version |-> WORLDLOCK_VERSION, locked |-> "true",
     hash |-> compute_grm_hash(nodes),
     nodes |-> [k \in DOMAIN nodes |-> stable_payload(nodes[k])]]

\* the file save_grm(nodes, path) writes
save_grm(nodes) ==
    [version |-> GRM_VERSION, locked |-> NoneText, hash |-> None,
     nodes |-> [k \in DOMAIN nodes |->
                   NodePayload(nodes[k].label, nodes[k].aliases,
                               nodes[k].sources, nodes[k].relations)]]

\* outcomes of a call that reads a file
RaisedValueError ==
    [raised |-> TRUE, returned |-> FALSE, verdict |-> FALSE, nodes |-> << >>]
ReturnedVerdict(v) ==
    [raised |-> FALSE, returned |-> TRUE, verdict |-> v, nodes |-> << >>]
ReturnedNodes(nodes) ==
    [raised |-> FALSE, returned |-> TRUE, verdict |-> FALSE, nodes |-> nodes]

verify_world_any_version(world_file) ==
    ReturnedVerdict(_sha256_bytes(dumps_sorted(world_file.nodes))
                        = world_file.hash)

\* verify_world(path) of a file holding world_file
verify_world(world_file) ==
    IF world_file.version # WORLDLOCK_VERSION THEN RaisedValueError
    ELSE IF world_file.locked # "true" THEN RaisedValueError
    ELSE ReturnedVerdict(_sha256_bytes(dumps_sorted(world_file.nodes))
                             = world_file.hash)

load_grm_any_version(data) ==
    ReturnedNodes([k \in DOMAIN data.nodes |->
        GRMNode(k, data.nodes[k].label, data.nodes[k].aliases,
                data.nodes[k].relations, data.nodes[k].sources)])

\* load_grm(path) of a file holding data
load_grm(data) ==
    IF data.version # GRM_VERSION THEN RaisedValueError
    ELSE ReturnedNodes([k \in DOMAIN data.nodes |->
             GRMNode(k, data.nodes[k].label, data.nodes[k].aliases,
                     data.nodes[k].relations, data.nodes[k].sources)])

CapitalOf == [predicate |-> "capital_of", target |-> "Q142"]

\* the GRM node sets that get persisted
ParisNodes ==
    { GRMNode("Q90", "Paris", a, r, s) :
        a \in { << >>, << "Lutetia" >>, << "Lutetia", "Paname" >>,
                << "Paname", "Lutetia" >> },
        r \in { << >>, << CapitalOf >> },
        s \in { << >>, << "wiki", "user" >> } }
FranceNodes ==
    { GRMNode("Q142", "France", << >>, << >>, s) :
        s \in { << >>, << "wiki" >> } }
GRMNodeSets ==
    { << >> }
    \cup { [k \in {"Q90"} |-> n] : n \in ParisNodes }
    \cup { [k \in {"Q142"} |-> n] : n \in FranceNodes }
    \cup { [k \in {"Q90", "Q142"} |-> IF k = "Q90" THEN n ELSE m] :
             n \in ParisNodes, m \in FranceNodes }

\* the ways a stored node object gets changed: its label, an alias added
\* or removed, a source added or removed, a relation added or removed
EditedPayloads(p) ==
    { [p EXCEPT !.label = "Lyon"],
      [p EXCEPT !.aliases = Append(@, "Lutece")],
      [p EXCEPT !.sources = Append(@, "blog")],
      [p EXCEPT !.relations = Append(@, CapitalOf)] }
    \cup (IF p.aliases = << >> THEN {}
          ELSE { [p EXCEPT !.aliases = SubSeq(@, 1, Len(@) - 1)] })
    \cup (IF p.sources = << >> THEN {}
          ELSE { [p EXCEPT !.sources = SubSeq(@, 1, Len(@) - 1)] })
    \cup (IF p.relations = << >> THEN {}
          ELSE { [p EXCEPT !.relations = SubSeq(@, 1, Len(@) - 1)] })

\* the ways the "nodes" object of a file gets changed: one node edited,
\* one node removed, the node Q64 added or removed
EditedNodes(nodes) ==
    UNION { { [nodes EXCEPT ![k] = p] : p \in EditedPayloads(nodes[k]) } :
              k \in DOMAIN nodes \ {"Q64"} }
    \cup { [j \in DOMAIN nodes \ {k} |-> nodes[j]] : k \in DOMAIN nodes }
    \cup (IF "Q64" \in DOMAIN nodes THEN {}
          ELSE { [j \in DOMAIN nodes \cup {"Q64"} |->
                    IF j = "Q64"
                    THEN NodePayload("Berlin", << >>, << >>, << >>)
                    ELSE nodes[j]] })

\* the ways a file gets changed: its nodes object, its version tag, its
\* locked mark
EditedFiles(f) ==
    { [f EXCEPT !.nodes = n] : n \in EditedNodes(f.nodes) }
    \cup { [f EXCEPT !.version = v] :
             v \in {"worldlock-0.9", "grm-2.0", NoneText} \ {f.version} }
    \cup { [f EXCEPT !.locked = l] : l \in {"false", "1", NoneText} \ {f.locked} }

NoCall == [raised |-> FALSE, returned |-> FALSE, verdict |-> FALSE,
           nodes |-> << >>]

\* lock_world(nodes, path)
LockWorld ==
    /\ world = << >>
    /\ \E nodes \in GRMNodeSets :
           world' = << [file |-> lock_world(nodes), written |-> lock_world(nodes),
                        edits |-> 0, call |-> "lock_world", res |-> NoCall] >>
    /\ UNCHANGED << engineVars, fieldVars, lambdaVars, topoVars, sessionVars,
                    ingestVars, aload, merger, sampled >>

\* save_grm(nodes, path)
SaveGrm ==
    /\ world = << >>
    /\ \E nodes \in GRMNodeSets :
           world' = << [file |-> save_grm(nodes), written |-> save_grm(nodes),
                        edits |-> 0, call |-> "save_grm", res |-> NoCall] >>
    /\ UNCHANGED << engineVars, fieldVars, lambdaVars, topoVars, sessionVars,
                    ingestVars, aload, merger, sampled >>

\* the file is changed on disk
EditFile ==
    /\ world # << >>
    /\ world[1].edits < MaxEdits
    /\ \E f \in EditedFiles(world[1].file) :
           world' = << [world[1] EXCEPT !.file = f, !.edits = @ + 1,
                                        !.call = "edit", !.res = NoCall] >>
    /\ UNCHANGED << engineVars, fieldVars, lambdaVars, topoVars, sessionVars,
                    ingestVars, aload, merger, sampled >>

\* verify_world(path)
VerifyWorld ==
    /\ world # << >>
    /\ world' = << [world[1] EXCEPT !.call = "verify_world",
                                    !.res = verify_world(world[1].file)] >>
    /\ UNCHANGED << engineVars, fieldVars, lambdaVars, topoVars, sessionVars,
                    ingestVars, aload, merger, sampled >>

\* load_grm(path)
LoadGrm ==
    /\ world # << >>
    /\ world' = << [world[1] EXCEPT !.call = "load_grm",
                                    !.res = load_grm(world[1].file)] >>
    /\ UNCHANGED << engineVars, fieldVars, lambdaVars, topoVars, sessionVars,
                    ingestVars, aload, merger, sampled >>

NextWorld == LockWorld \/ SaveGrm \/ EditFile \/ VerifyWorld \/ LoadGrm

SpecWorld == Init /\ [][NextWorld]_vars

\* C23: load_grm of a file whose version tag is not the supported GRM
\* version, and verify_world of a file whose version tag is not the
\* supported world-lock version or that is not marked locked, raise: they
\* return nothing, so no node and no verdict comes out of such a file
C23_UnsupportedVersionFatal ==
    world # << >> =>
        /\ (world[1].call = "load_grm"
              /\ world[1].file.version # GRM_VERSION) =>
               (world[1].res.raised /\ ~world[1].res.returned
                  /\ world[1].res.nodes = << >>)
        /\ (world[1].call = "verify_world"
              /\ (world[1].file.version # WORLDLOCK_VERSION
                    \/ world[1].file.locked # "true")) =>
               (world[1].res.raised /\ ~world[1].res.returned)

\* load_grm was called on a saved file with nodes whose version tag was
\* changed, and raised
C23_Witness ==
    /\ world # << >>
    /\ world[1].call = "load_grm"
    /\ world[1].written.version = GRM_VERSION
    /\ world[1].file.version = "grm-2.0"
    /\ DOMAIN world[1].file.nodes = {"Q90", "Q142"}
    /\ world[1].res.raised

\* verify_world was called on a world file whose locked mark was changed,
\* and raised
C23_WitnessVerify ==
    /\ world # << >>
    /\ world[1].call = "verify_world"
    /\ world[1].file.version = WORLDLOCK_VERSION
    /\ world[1].file.locked = "1"
    /\ world[1].res.raised

\* C24: verify_world of a file lock_world wrote, whose version tag and
\* locked mark are as written, returns True when the stored nodes are as
\* written and False when they differ
C24_LockVerifyRoundTrip ==
    (world # << >> /\ world[1].call = "verify_world"
        /\ world[1].written.version = WORLDLOCK_VERSION
        /\ world[1].file.version = WORLDLOCK_VERSION
        /\ world[1].file.locked = "true") =>
        /\ world[1].res.returned
        /\ world[1].res.verdict
             = (world[1].file.nodes = world[1].written.nodes)

\* a world with unsorted aliases and sources was locked and verified True
C24_Witness ==
    /\ world # << >>
    /\ world[1].call = "verify_world"
    /\ world[1].written.version = WORLDLOCK_VERSION
    /\ world[1].edits = 0
    /\ "Q90" \in DOMAIN world[1].file.nodes
    /\ world[1].file.nodes["Q90"].aliases = << "Lutetia", "Paname" >>
    /\ world[1].file.nodes["Q90"].sources = << "user", "wiki" >>
    /\ world[1].res.verdict

\* a locked world with a changed alias was verified False
C24_WitnessChanged ==
    /\ world # << >>
    /\ world[1].call = "verify_world"
    /\ world[1].written.version = WORLDLOCK_VERSION
    /\ world[1].edits = 1
    /\ "Q90" \in DOMAIN world[1].file.nodes
    /\ "Q90" \in DOMAIN world[1].written.nodes
    /\ world[1].file.nodes["Q90"].aliases
         # world[1].written.nodes["Q90"].aliases
    /\ world[1].res.returned
    /\ ~world[1].res.verdict

\* ------------------------------------------------------------------
\* GRMMerger: canonical-id merge
\* ------------------------------------------------------------------
\* number of get_or_create calls on one merger
MaxMerges == 3

\* Python truthiness of an optional string
Truthy(s) == s # NoneText /\ s # ""

\* x in xs, for a list
InList(x, xs) == \E i \in 1..Len(xs) : xs[i] = x

\* self.nodes after GRMMerger.get_or_create(canonical_id, label, alias,
\* source)
merger_get_or_create(nodes, canonical_id, label, alias, source) ==
    [k \in DOMAIN nodes \cup {canonical_id} |->
        IF k # canonical_id THEN nodes[k]
        ELSE LET node == IF canonical_id \in DOMAIN nodes
                         THEN nodes[canonical_id]
                         ELSE GRMNode(canonical_id, label, << >>, << >>, << >>)
             IN [node EXCEPT
                    !.aliases =
                        IF Truthy(alias) /\ alias # label
                             /\ ~InList(alias, node.aliases)
                        THEN Append(@, alias) ELSE @,
                    !.sources =
                        IF Truthy(source) /\ ~InList(source, node.sources)
                        THEN Append(@, source) ELSE @]]

MergeIds == {"Q90", "Q142"}
MergeLabels == {"Paris", "Lutetia"}
MergeAliases == {NoneText, "", "Paris", "Lutetia"}
MergeSources == {NoneText, "wiki", "user"}

\* the merger before its first call
NewMerger == [nodes |-> << >>, before |-> << >>, first |-> << >>, calls |-> 0]
TheMerger == IF merger = << >> THEN NewMerger ELSE merger[1]

\* merger.get_or_create(canonical_id=..., label=..., alias=..., source=...);
\* first keeps the label of the first call made for every id, before the
\* nodes as they were when the call was made
GetOrCreate ==
    /\ TheMerger.calls < MaxMerges
    /\ \E id \in MergeIds, label \in MergeLabels, alias \in MergeAliases,
          source \in MergeSources :
           merger' = << [nodes |-> merger_get_or_create(TheMerger.nodes, id,
                                                        label, alias, source),
                         before |-> TheMerger.nodes,
                         first |-> [k \in DOMAIN TheMerger.first \cup {id} |->
                                       IF k \in DOMAIN TheMerger.first
                                       THEN TheMerger.first[k] ELSE label],
                         calls |-> TheMerger.calls + 1] >>
    /\ UNCHANGED << engineVars, fieldVars, lambdaVars, topoVars, sessionVars,
                    ingestVars, aload, world, sampled >>

NextMerge == GetOrCreate

SpecMerge == Init /\ [][NextMerge]_vars

NoDuplicates(xs) == \A i, j \in 1..Len(xs) : xs[i] = xs[j] => i = j
IsPrefix(xs, ys) == Len(xs) <= Len(ys) /\ SubSeq(ys, 1, Len(xs)) = xs

\* C25: after any sequence of get_or_create calls there is one node per
\* canonical id that was asked for, with that id and the label of the
\* first call for it; its alias and source lists extend what they were
\* before the last call, hold no duplicates, and the alias list does not
\* hold the node's own label
C25_MergeIdentityStable ==
    /\ DOMAIN TheMerger.nodes = DOMAIN TheMerger.first
    /\ \A k \in DOMAIN TheMerger.nodes :
           /\ TheMerger.nodes[k].id = k
           /\ TheMerger.nodes[k].label = TheMerger.first[k]
           /\ NoDuplicates(TheMerger.nodes[k].aliases)
           /\ NoDuplicates(TheMerger.nodes[k].sources)
           /\ ~InList(TheMerger.nodes[k].label, TheMerger.nodes[k].aliases)
           /\ k \in DOMAIN TheMerger.before =>
                  /\ IsPrefix(TheMerger.before[k].aliases,
                              TheMerger.nodes[k].aliases)
                  /\ IsPrefix(TheMerger.before[k].sources,
                              TheMerger.nodes[k].sources)

\* the same without the clause on the node's own label, which holds
C25_MergeAppendOnly ==
    /\ DOMAIN TheMerger.nodes = DOMAIN TheMerger.first
    /\ \A k \in DOMAIN TheMerger.nodes :
           /\ TheMerger.nodes[k].id = k
           /\ TheMerger.nodes[k].label = TheMerger.first[k]
           /\ NoDuplicates(TheMerger.nodes[k].aliases)
           /\ NoDuplicates(TheMerger.nodes[k].sources)
           /\ k \in DOMAIN TheMerger.before =>
                  /\ IsPrefix(TheMerger.before[k].aliases,
                              TheMerger.nodes[k].aliases)
                  /\ IsPrefix(TheMerger.before[k].sources,
                              TheMerger.nodes[k].sources)

\* ------------------------------------------------------------------
\* Displacement of enforce
\* ------------------------------------------------------------------
\* distance of a value inside a range to the nearer end of the range
EdgeDistance(v, rng) == Min(v - rng[1], rng[2] - v)

\* the coordinate c inside region r pushed along one axis only
PushTheta(c, r) == PhaseCoord(_push_1d(c.theta, r.theta_range), c.phi, c.rho)
PushPhi(c, r) == PhaseCoord(c.theta, _push_1d(c.phi, r.phi_range), c.rho)
PushRho(c, r) == PhaseCoord(c.theta, c.phi, _push_1d(c.rho, r.rho_range))

\* the coordinate c inside region r pushed along the axis whose value is
\* nearest to an edge of r, where one axis is nearer than the other two
NearestAxisPush(c, r) ==
    LET dt == EdgeDistance(c.theta, r.theta_range)
        dp == EdgeDistance(c.phi, r.phi_range)
        dr == EdgeDistance(c.rho, r.rho_range)
    IN  IF dt < dp /\ dt < dr THEN PushTheta(c, r)
        ELSE IF dp < dt /\ dp < dr THEN PushPhi(c, r)
        ELSE PushRho(c, r)

HasNearestAxis(c, r) ==
    LET dt == EdgeDistance(c.theta, r.theta_range)
        dp == EdgeDistance(c.phi, r.phi_range)
        dr == EdgeDistance(c.rho, r.rho_range)
    IN  \/ dt < dp /\ dt < dr
        \/ dp < dt /\ dp < dr
        \/ dr < dt /\ dr < dp

\* the locked region of the canonical topology
rocksteeple_forbidden == default_topology[2]

\* C26: enforce returns a coordinate inside the locked region moved along
\* the one axis nearest to an edge, to the margin beyond that edge, the
\* other two axes as they were, and returns a coordinate inside no locked
\* region as clamped
C26_MinimalDisplacement ==
    tcall # << >> =>
        LET c == clamp(tcall[1].coord)
        IN  /\ (_inside(c, rocksteeple_forbidden)
                  /\ HasNearestAxis(c, rocksteeple_forbidden)) =>
                   tcall[1].res = clamp(NearestAxisPush(c, rocksteeple_forbidden))
            /\ ~InLocked(c) => tcall[1].res = c

\* the part that holds: a coordinate inside no locked region is returned
\* as clamped
C26_OutsideUnchanged ==
    (tcall # << >> /\ ~InLocked(clamp(tcall[1].coord))) =>
        tcall[1].res = clamp(tcall[1].coord)

\* ------------------------------------------------------------------
\* Failing fields in the Resolution Operator
\* ------------------------------------------------------------------
\* the call of a method fails: it raises, or a component of what it returns
\* is not a number
MethodFails(m) == m.has /\ (m.raises \/ m.bad # 0)

\* the call of a method gives no usable value
MethodUnusable(m) == m.has /\ (m.raises \/ ~m.ok \/ m.bad # 0)

\* the pull-vector computation of the field handed over as which fails
\* without any of its call shapes giving a vector
FieldFails(args, which) ==
    IF which = "atlas"
    THEN \/ MethodFails(args.atlas.pull_vector)
         \/ /\ ~args.atlas.pull_vector.has
            /\ \E k \in {"as_lambda_payload", "nearest"} :
                   MethodFails(args.atlas[k])
            /\ \A k \in {"as_lambda_payload", "nearest"} :
                   args.atlas[k].has => MethodUnusable(args.atlas[k])
    ELSE MethodFails(args[which].resultant_vector)

\* the last call made again without the field handed over as which
ForwardWithout(which) ==
    LambdaEngine_forward(
        lsigma, largs[1].imago_phase,
        IF which = "atlas" THEN NoField ELSE largs[1].atlas,
        IF which = "godel_field" THEN NoField ELSE largs[1].godel_field,
        IF which = "edge_field" THEN NoField ELSE largs[1].edge_field)

\* C27: when the pull-vector computation of a field handed to forward()
\* fails, the call returns the resolved coordinate and the mode tags of
\* the same call made without that field
C27_FailedFieldAbsent ==
    lres # << >> =>
        \A which \in {"atlas", "godel_field", "edge_field"} :
            (FieldFails(largs[1], which) /\ ~ForwardWithout(which).raised) =>
                /\ ~lres[1].raised
                /\ lres[1].chosen = ForwardWithout(which).chosen
                /\ lres[1].mode = ForwardWithout(which).mode

\* the part that holds: a field whose resultant_vector call itself raises
\* is treated as absent
C27_RaisingResultantAbsent ==
    lres # << >> =>
        \A which \in {"godel_field", "edge_field"} :
            (largs[1][which].resultant_vector.raises
               /\ ~ForwardWithout(which).raised) =>
                /\ ~lres[1].raised
                /\ lres[1].chosen = ForwardWithout(which).chosen
                /\ lres[1].mode = ForwardWithout(which).mode

\* ------------------------------------------------------------------
\* GodelField.sample_attractors
\* ------------------------------------------------------------------
\* how many of the strongest bridges are sampled from
StrongCount == 64

\* e_phase of the bridges add_relation builds for ("n01", "is", "x") to
\* ("n66", "is", "x"), in units of 1/Scale
SampleEdgePhases ==
    <<
       << -366, -580, 387 >>, << -125, -701, 405 >>, << 891, 251, 709 >>,
       << 634, 303, 680 >>, << -212, 439, 845 >>, << -521, 129, 470 >>,
       << -896, 838, 395 >>, << -203, -415, 890 >>, << -185, 749, 472 >>,
       << 751, -125, 490 >>, << 5, 64, 816 >>, << 904, -289, 270 >>,
       << -430, -898, 602 >>, << 693, -152, 674 >>, << -869, -669, 103 >>,
       << -601, 112, 173 >>, << -398, -778, 923 >>, << -765, 569, 938 >>,
       << 7, -449, 523 >>, << -969, 669, 429 >>, << -664, 119, 839 >>,
       << 668, -754, 16 >>, << 620, -892, 792 >>, << -316, -504, 975 >>,
       << -163, 921, 805 >>, << -331, -84, 617 >>, << 301, 321, 512 >>,
       << -4, 171, 543 >>, << 437, -532, 805 >>, << 168, 75, 685 >>,
       << -380, -895, 154 >>, << 235, 251, 537 >>, << -404, -458, 114 >>,
       << -964, 232, 64 >>, << -803, 972, 411 >>, << -973, -518, 10 >>,
       << -583, -84, 245 >>, << 536, -52, 222 >>, << 12, 169, 841 >>,
       << 217, 407, 691 >>, << 207, -967, 61 >>, << 426, 95, 57 >>,
       << 648, 879, 83 >>, << 498, 252, 789 >>, << -770, -330, 313 >>,
       << -615, -383, 430 >>, << 887, 990, 886 >>, << 292, 953, 523 >>,
       << -668, 559, 66 >>, << -452, -97, 372 >>, << -971, 97, 928 >>,
       << -458, -147, 903 >>, << 8, 394, 708 >>, << -559, -196, 472 >>,
       << 646, -945, 796 >>, << -269, -484, 960 >>, << 261, 943, 499 >>,
       << -932, -136, 993 >>, << -325, 621, 526 >>, << -383, 361, 722 >>,
       << 686, 816, 58 >>, << 454, 408, 56 >>, << -574, -335, 279 >>,
       << -531, -55, 544 >>, << -914, 52, 42 >>, << 304, -335, 935 >>
    >>

\* sha256(seed).digest() of the seeds, byte by byte
SeedDigests ==
    "paris" :>
      <<
         22, 112, 242, 228, 47, 239, 165, 4, 77, 89, 166, 83, 73, 228, 124,
         86, 96, 9, 72, 143, 197, 125, 123, 67, 118, 221, 87, 135, 181, 158,
         60, 87
      >>
    @@ "seed" :>
      <<
         25, 178, 88, 86, 225, 193, 80, 202, 131, 76, 255, 200, 181, 155, 35,
         173, 189, 14, 192, 56, 158, 88, 235, 34, 179, 182, 71, 104, 9, 141,
         0, 43
      >>
    @@ "udt" :>
      <<
         52, 82, 223, 70, 38, 66, 129, 31, 83, 58, 171, 51, 32, 100, 79, 147,
         143, 239, 112, 123, 175, 105, 132, 89, 53, 167, 199, 205, 175, 223,
         144, 189
      >>

\* the i-th bridge of the sampled fields: its strength is (37 i mod 101)/100
SampleBridge(i) ==
    [subject |-> i,
     e_phase |-> PhaseCoord(SampleEdgePhases[i][1], SampleEdgePhases[i][2],
                            SampleEdgePhases[i][3]),
     strength |-> ((37 * i) % 101) * 10]

\* a field holding the first n of these bridges, in the order added
SampleField(n) == [i \in 1..n |-> SampleBridge(i)]

\* sorted(self.bridges, key=strength, reverse=True)[:min(len, 64)]
strong_of(bridges) ==
    SubSeq(SortByStrengthDesc(bridges, 1, << >>), 1,
           Min(Len(bridges), StrongCount))

\* sha256((seed_key or "seed").encode()).digest()
seed_digest(seed_key) ==
    SeedDigests[IF seed_key = NoneText \/ seed_key = "" THEN "seed"
                ELSE seed_key]

\* the loop over range(k) with h[i] taken modulo 256, a digest that never
\* runs out
sample_picks_wrapping(strong, h, k) ==
    [raised |-> FALSE,
     picks |-> [i \in 1..k |->
                   strong[(h[((i - 1) % Len(h)) + 1] % Len(strong)) + 1].e_phase]]

\* the loop over range(k): picks.append(strong[h[i] % len(strong)].e_phase);
\* h[i] raises IndexError once i reaches the length of the digest
sample_picks(strong, h, k) ==
    IF k > Len(h) THEN [raised |-> TRUE, picks |-> << >>]
    ELSE [raised |-> FALSE,
          picks |-> [i \in 1..k |-> strong[(h[i] % Len(strong)) + 1].e_phase]]

\* GodelField.sample_attractors(seed_key, k) on a field holding bridges
sample_attractors(bridges, seed_key, k) ==
    IF bridges = << >> \/ k <= 0 THEN [raised |-> FALSE, picks |-> << >>]
    ELSE sample_picks(strong_of(bridges), seed_digest(seed_key), k)

SampleSizes == {0, 1, 2, 3, 64, 65, 66}
SampleSeeds == {"paris", "udt", "", NoneText}
SampleKs == {-1, 0, 1, 2, 8, 32, 33}

\* field.sample_attractors(seed_key, k) on a field of n bridges
Sample ==
    /\ sampled = << >>
    /\ \E n \in SampleSizes, seed_key \in SampleSeeds, k \in SampleKs :
           sampled' = << [bridges |-> SampleField(n), seed_key |-> seed_key,
                          k |-> k,
                          res |-> sample_attractors(SampleField(n), seed_key,
                                                    k)] >>
    /\ UNCHANGED << engineVars, fieldVars, lambdaVars, topoVars, sessionVars,
                    ingestVars, aload, world, merger >>

NextSample == Sample

SpecSample == Init /\ [][NextSample]_vars

\* the coordinate is the edge coordinate of a bridge that fewer than 64
\* bridges of the field are stronger than
AmongStrongest(p, bridges) ==
    \E i \in 1..Len(bridges) :
        /\ bridges[i].e_phase = p
        /\ Cardinality({j \in 1..Len(bridges) :
                           bridges[j].strength > bridges[i].strength})
             < StrongCount

\* the last call returned at most k coordinates, each of one of the 64
\* strongest bridges, and none for an empty field or k <= 0
SampleBounded ==
    /\ ~sampled[1].res.raised
    /\ Len(sampled[1].res.picks) <= Max(sampled[1].k, 0)
    /\ \A i \in 1..Len(sampled[1].res.picks) :
           AmongStrongest(sampled[1].res.picks[i], sampled[1].bridges)
    /\ (sampled[1].bridges = << >> \/ sampled[1].k <= 0) =>
           sampled[1].res.picks = << >>

\* C28: for every seed and every k, sample_attractors returns without
\* error at most k coordinates, each the edge coordinate of one of the 64
\* strongest bridges of the field, and the empty list when the field is
\* empty or k <= 0
C28_SampleTotal == sampled # << >> => SampleBounded

\* the part that holds: the same for k up to the 32 bytes of the digest
C28_SampleWithinDigest ==
    (sampled # << >> /\ sampled[1].k <= 32) => SampleBounded

\* ------------------------------------------------------------------
\* Non-interference of the Relation Field, on the sessions of SpecBranch:
\* after sigma_restore the engine has the memory it had at the snapshot
\* and the bridges its branches added
\* ------------------------------------------------------------------
GodelModes ==
    {"POOR + PCM + GODEL_FIELD", "POOR + PCM + GODEL_FIELD + ATLAS",
     "POOR + PCM + EDGE + GODEL_FIELD",
     "POOR + PCM + EDGE + GODEL_FIELD + ATLAS"}

\* the Resolution Result the engine as it was at the snapshot returns for
\* the prompt
PrimaryResult(prompt) ==
    DephazeUDT_forward(primary.udt, prompt, FALSE, NoEvidence)
        .bundle.lambda_result

PipedCalls ==
    { << t[1], t[2], t[3], "user", s >> :
        t \in { << "x|y", "is", "z" >>, << "x", "y|is", "z" >>,
                << "x", "is", "z" >> },
        s \in {300, 700} }
    \cup { << "x", "is", "z", "wiki", 300 >> }

\* the (origin, subject, lowercased relation, object) tuple of a call
IdentityOf(c) == << c[4], strip(c[1]), lower(strip(c[2])), strip(c[3]) >>

\* gf.add_relation(subject=.., relation=.., object_=.., mapper=..,
\*                 strength=.., origin=..)
AddPiped ==
    /\ Len(gfLog) < MaxAdds
    /\ \E c \in PipedCalls :
           /\ gf' = add_relation(gf, DefaultMaxBridges, c[1], c[2], c[3], c[5],
                                 c[4])
           /\ gfLog' = Append(gfLog, [key |-> CallKey(c[1], c[2], c[3], c[4]),
                                      strength |-> Max(0, c[5]),
                                      identity |-> IdentityOf(c)])
    /\ UNCHANGED << gfEvicted, engineVars, lambdaVars, otherVars >>

NextIdentity == AddPiped

SpecIdentity == Init /\ [][NextIdentity]_vars

\* the bridges of the field with the identity
BridgesOf(identity) ==
    {i \in 1..Len(gf) :
        << gf[i].origin, gf[i].subject, gf[i].relation, gf[i].object_ >>
            = identity}

\* C30: every identity that was added has its own bridge in the field,
\* one, with the greatest strength the identity was added with: calls of
\* another identity neither take its place nor replace it
C30_BridgeIdentityExact ==
    \A k \in 1..Len(gfLog) :
        /\ Cardinality(BridgesOf(gfLog[k].identity)) = 1
        /\ \A i \in BridgesOf(gfLog[k].identity) :
               /\ gf[i].strength >= gfLog[k].strength
               /\ \E j \in 1..Len(gfLog) :
                      /\ gfLog[j].identity = gfLog[k].identity
                      /\ gfLog[j].strength = gf[i].strength

\* the part that holds: the same for the identities whose key no other
\* identity that was added shares
C30_IdentityOfOwnKey ==
    \A k \in 1..Len(gfLog) :
        (\A j \in 1..Len(gfLog) :
            gfLog[j].key = gfLog[k].key => gfLog[j].identity = gfLog[k].identity)
        =>
        /\ Cardinality(BridgesOf(gfLog[k].identity)) = 1
        /\ \A i \in BridgesOf(gfLog[k].identity) :
               /\ gf[i].strength >= gfLog[k].strength
               /\ \E j \in 1..Len(gfLog) :
                      /\ gfLog[j].identity = gfLog[k].identity
                      /\ gfLog[j].strength = gf[i].strength

====
